---------------------------- MODULE Spec2Model ----------------------------
(***************************************************************************)
(* Verification model of homedashsensor.                                   *)
(*                                                                         *)
(*   Part 1  ProximityDetector (src/_old/proximity.py): the presence       *)
(*           state machine driven by process_reading.                      *)
(*   Part 2  the modular display path: DisplayController                   *)
(*           (src/_old/display.py) driven by the proximity and light       *)
(*           workers of HomeDashSensor (src/_old/main.py).                 *)
(*   Part 3  the all-in-one display path: ProximityDisplaySystem and its   *)
(*           DisplayController (src/proximity_display_control.py).         *)
(*   Part 4  DisplayManager (src/sensors/display_manager.py), the display  *)
(*           object of the current program.                                *)
(*                                                                         *)
(* The variable impl records which of the programs a behaviour runs; the   *)
(* variables of the other programs stay at their initial values.           *)
(*                                                                         *)
(* Optional values (Python None) are sequences of length 0 or 1.           *)
(* Time is counted in whole seconds; one process_reading call reads the    *)
(* clock once.                                                             *)
(***************************************************************************)
EXTENDS Integers, Sequences, FiniteSets, TLC

VARIABLES
    \* ---- ProximityDetector (src/_old/proximity.py) ----
    det_config,                  \* DetectionConfig
    human_present,               \* DetectionState.human_present
    consecutive_detections,      \* DetectionState.consecutive_detections
    consecutive_non_detections,  \* DetectionState.consecutive_non_detections
    last_valid_distance,         \* ProximityDetector._last_valid_distance
    detection_start_time,        \* ProximityDetector._detection_start_time
    now,                         \* time.time() at the most recent call
    reading,                     \* argument of the most recent call (history)
    was_present,                 \* human_present before the most recent call (history)
    verdicts,                    \* per-call verdict of the recent calls (history)
    pending,                     \* readings of a recorded run still to be processed
    \* ---- display path, both implementations ----
    impl,                        \* "detector", "modular", "allinone", "manager"
    disp_config,                 \* DisplayConfig / the [Display] section
    app_pc,                      \* position of run(): "init", "run", "shutdown", "stopped"
    running,                     \* _running / running
    channel,                     \* content of the sysfs brightness file
    last_written,                \* last value written successfully (history)
    write_failed,                \* some write has failed (history)
    fade_task,                   \* _fade_task: None or the id of a fade task
    fades,                       \* the fade tasks created so far, by id
    \* ---- modular: DisplayController + workers ----
    state,                       \* DisplayState
    lock_owner,                  \* holder of DisplayController._lock
    lock_waiters,                \* FIFO of workers waiting for the lock
    wpc,                         \* position of each worker
    wreq,                        \* the display call each worker is inside
    previous_human_present,      \* local of _proximity_worker
    \* ---- all-in-one: ProximityDisplaySystem ----
    display,                     \* the display object: current_brightness, max_brightness
    system,                      \* human_present, current_target_brightness, fading
    current_lux,                 \* LightSensorController.current_lux
    last_request,                \* target of the most recently issued fade request (history)
    \* ---- VL53L5CXSensor (src/_old/sensors.py) ----
    sensor,                      \* _last_reading, and how the last read ended (history)
    \* ---- HomeDashboardApp (src/main.py) ----
    app,                         \* screen_on, and the LightReading of the last wake (history)
    \* ---- the lux-to-brightness mappings on their own ----
    mapped                       \* the last mapping applied: function, lux, brightness

detVars == <<det_config, human_present, consecutive_detections,
             consecutive_non_detections, last_valid_distance,
             detection_start_time, now, reading, was_present, verdicts,
             pending>>

dispVars == <<impl, disp_config, app_pc, running, channel, last_written,
              write_failed, fade_task, fades, state, lock_owner,
              lock_waiters, wpc, wreq, previous_human_present, display,
              system, current_lux, last_request>>

extVars == <<sensor, app, mapped>>

vars == <<detVars, dispVars, extVars>>

\* what the modular program never touches
notModular == <<detVars, extVars, impl, disp_config, display, system,
                current_lux>>
\* what the all-in-one program never touches
notAllInOne == <<detVars, extVars, impl, disp_config, state, lock_owner, lock_waiters,
                 wpc, wreq, previous_human_present>>

None == << >>
Some(x) == <<x>>
Abs(x) == IF x < 0 THEN -x ELSE x
Max(a, b) == IF a >= b THEN a ELSE b
Min(a, b) == IF a <= b THEN a ELSE b

(***************************************************************************)
(* Bounds of the detector model.                                           *)
(***************************************************************************)
MaxConsecutiveRequired == 2
MaxNoPresenceRequired == 2
\* both counters are capped a little above the largest value any rule reads
MaxCount == 2 * MaxNoPresenceRequired + 1
\* the history keeps as many calls as the longest window any rule reads
HistoryLen ==
    IF 2 * MaxNoPresenceRequired >= MaxConsecutiveRequired
    THEN 2 * MaxNoPresenceRequired ELSE MaxConsecutiveRequired

(***************************************************************************)
(* Program constants.                                                      *)
(***************************************************************************)
DefaultThresholdMm == 400
DefaultDetectionZones == 6
DefaultConsecutiveRequired == 3
DefaultNoPresenceRequired == 10
MaxRealisticChange == 300
MinDetectionDuration == 2

\* seconds that may pass between two calls, and the horizon of the clock:
\* long enough for the minimum detection duration to elapse or not
TimeSteps == {0, 1}
MaxTime == MinDetectionDuration + 1

Distances == {50, 400, 450, 2000}
ZoneCounts == {0, 5, 8}

DetectionConfigs ==
    [threshold_mm : {DefaultThresholdMm},
     detection_zones : {0, DefaultDetectionZones},
     consecutive_required : 1..MaxConsecutiveRequired,
     no_presence_required : 1..MaxNoPresenceRequired]

ValidReadings ==
    [distance_mm : Distances, zones_in_range : ZoneCounts, valid : {TRUE}]
\* _process_ranging_data reports 4000 mm / 0 zones when no zone is valid
InvalidReadings ==
    [distance_mm : {4000}, zones_in_range : {0}, valid : {FALSE}]
Readings == {None} \cup {Some(r) : r \in ValidReadings \cup InvalidReadings}

IsInvalid(rd) == IF Len(rd) = 0 THEN TRUE ELSE ~rd[1].valid

(***************************************************************************)
(* Bounds of the display models.                                           *)
(***************************************************************************)
\* fade tasks created in one behaviour
MaxFades == 3
\* largest configured fade_steps
MaxFadeSteps == 2

FadeIds == 1..MaxFades
\* slot 0 is the fade_to call ProximityDisplaySystem.run makes itself
BootFade == 0
FadeSlots == {BootFade} \cup FadeIds
Workers == {"proximity", "light"}

(***************************************************************************)
(* Constants of the display programs.                                      *)
(***************************************************************************)
DefaultMinBrightness == 0
DefaultMaxBrightness == 255
DefaultLightThresholdLow == 10
DefaultLightThresholdHigh == 500
\* the literal 50 of set_adaptive_brightness
AdaptiveFloor == 50
\* set_adaptive_brightness ignores targets within 10 of the current target
AdaptiveHysteresis == 10

Easings == {"linear", "ease_in_out", "quintic"}

\* DisplayConfig values read from the configuration file: the defaults, and
\* a display that is never dimmed below 60
DisplayConfigs ==
    [min_brightness : {DefaultMinBrightness, 60},
     max_brightness : {DefaultMaxBrightness},
     light_threshold_low : {DefaultLightThresholdLow},
     light_threshold_high : {DefaultLightThresholdHigh},
     adaptive_brightness_enabled : {TRUE},
     fade_steps : 1..MaxFadeSteps,
     fade_easing : Easings]

\* content of the brightness file when the program starts
InitialBrightness == {0, 255}
\* ambient light readings: just above the low threshold, and bright
LuxLevels == {20, 600}

\* a fade task that has not been created; `same` records that the target
\* was the brightness tracked when the fade was requested (history)
NoFade ==
    [status |-> "unborn", target |-> 0, start |-> 0, steps |-> 0,
     step |-> 0, value |-> 0, same |-> FALSE]
\* a worker that is inside no display call
NoCall == [op |-> "none", target |-> 0, inflight |-> 0, same |-> FALSE]

\* values of the variables of a program that is not the one running
DetectorIdle ==
    /\ det_config = [threshold_mm |-> DefaultThresholdMm,
                     detection_zones |-> DefaultDetectionZones,
                     consecutive_required |-> 1,
                     no_presence_required |-> 1]
    /\ human_present = FALSE
    /\ consecutive_detections = 0
    /\ consecutive_non_detections = 0
    /\ last_valid_distance = None
    /\ detection_start_time = None
    /\ now = 0
    /\ reading = None
    /\ was_present = FALSE
    /\ verdicts = << >>
    /\ pending = << >>

ExtIdle ==
    /\ sensor = [last_reading |-> None, outcome |-> "none"]
    /\ app = [screen_on |-> FALSE, reading |-> None, elapsed |-> 0,
               frame |-> "none", frames |-> 0]
    /\ mapped = None

ModularIdle ==
    /\ state = [current_brightness |-> 0, target_brightness |-> 0,
                is_fading |-> FALSE, is_awake |-> FALSE]
    /\ lock_owner = None
    /\ lock_waiters = << >>
    /\ wpc = [w \in Workers |-> "poll"]
    /\ wreq = [w \in Workers |-> NoCall]
    /\ previous_human_present = FALSE

AllInOneIdle ==
    /\ display = [current_brightness |-> 0, max_brightness |-> 0]
    /\ system = [human_present |-> FALSE, current_target_brightness |-> 0,
                 fading |-> FALSE]
    /\ current_lux = 0

DisplayIdle ==
    /\ disp_config = [min_brightness |-> 0, max_brightness |-> 0]
    /\ app_pc = "init"
    /\ running = FALSE
    /\ channel = 0
    /\ last_written = None
    /\ write_failed = FALSE
    /\ fade_task = None
    /\ fades = [f \in FadeSlots |-> NoFade]
    /\ last_request = None
    /\ ModularIdle
    /\ AllInOneIdle

(***************************************************************************)
(* ProximityDetector                                                       *)
(***************************************************************************)
\* mutant: the distance-jump check is left out
ValidateMovementNoJumpCheck(r) ==
    IF last_valid_distance = None THEN TRUE
    ELSE IF /\ r.distance_mm <= det_config.threshold_mm
            /\ r.zones_in_range < Max(1, det_config.detection_zones - 1)
         THEN FALSE
    ELSE TRUE

ValidateMovement(r) ==
    IF last_valid_distance = None THEN TRUE
    ELSE IF Abs(r.distance_mm - last_valid_distance[1]) > MaxRealisticChange
         THEN FALSE
    ELSE IF /\ r.distance_mm <= det_config.threshold_mm
            /\ r.zones_in_range < Max(1, det_config.detection_zones - 1)
         THEN FALSE
    ELSE TRUE

IsDetectionCriteriaMet(r) ==
    /\ r.distance_mm <= det_config.threshold_mm
    /\ r.zones_in_range >= det_config.detection_zones
    /\ ValidateMovement(r)

\* the two counters after a valid reading with verdict `detected`
DetectionsAfter(detected) ==
    IF detected THEN consecutive_detections + 1 ELSE 0

\* mutant: a detection does not reset the non-detection counter
NonDetectionsAfterNoReset(detected) ==
    IF detected THEN consecutive_non_detections
    ELSE consecutive_non_detections + 1

NonDetectionsAfter(detected) ==
    IF detected THEN 0 ELSE consecutive_non_detections + 1

\* mutant: strict comparison
ShouldTriggerDetectionLate(cd) == cd > det_config.consecutive_required

\* mutant: presence is switched on by any valid reading
ShouldTriggerDetectionAlways(cd) == TRUE

ShouldTriggerDetection(cd) == cd >= det_config.consecutive_required

\* mutant: one non-detection more than configured is asked for
ShouldTriggerNonDetectionStrict(cnd, start, t) ==
    IF cnd <= det_config.no_presence_required THEN FALSE
    ELSE IF start = None THEN TRUE
    ELSE t - start[1] >= MinDetectionDuration

\* mutant: no minimum detection duration
ShouldTriggerNonDetectionNoDwell(cnd, start, t) ==
    cnd >= det_config.no_presence_required

ShouldTriggerNonDetection(cnd, start, t) ==
    IF cnd < det_config.no_presence_required THEN FALSE
    ELSE IF start = None THEN TRUE
    ELSE t - start[1] >= MinDetectionDuration

\* mutant: invalid readings weigh as much as valid non-detections
InvalidClearCountSingle == det_config.no_presence_required

\* the count of invalid readings at which presence is cleared
InvalidClearCount == det_config.no_presence_required * 2

Remember(v) ==
    LET h == Append(verdicts, v)
    IN  IF Len(h) > HistoryLen THEN Tail(h) ELSE h

\* mutant: a reading rejected by the movement check leaves the previous
\* distance as it was
ValidReadingEffectKeepsDistance(rd, t) ==
    /\ LET r == rd[1]
           detected == IsDetectionCriteriaMet(r)
           cd == DetectionsAfter(detected)
           cnd == NonDetectionsAfter(detected)
           start == IF detected /\ ~human_present
                    THEN Some(t) ELSE detection_start_time
       IN  /\ consecutive_detections' = cd
           /\ consecutive_non_detections' = cnd
           /\ detection_start_time' = start
           /\ human_present' =
                IF ~human_present /\ ShouldTriggerDetection(cd) THEN TRUE
                ELSE IF human_present /\ ShouldTriggerNonDetection(cnd, start, t)
                     THEN FALSE
                ELSE human_present
           /\ last_valid_distance' =
                IF ValidateMovement(r) THEN Some(r.distance_mm)
                ELSE last_valid_distance
           /\ now' = t
           /\ reading' = rd
           /\ was_present' = human_present
           /\ verdicts' = Remember(detected)
    /\ UNCHANGED det_config

\* the body of process_reading for a valid reading, at clock time t
ValidReadingEffect(rd, t) ==
    /\ LET r == rd[1]
           detected == IsDetectionCriteriaMet(r)
           cd == DetectionsAfter(detected)
           cnd == NonDetectionsAfter(detected)
           start == IF detected /\ ~human_present
                    THEN Some(t) ELSE detection_start_time
       IN  /\ consecutive_detections' = cd
           /\ consecutive_non_detections' = cnd
           /\ detection_start_time' = start
           /\ human_present' =
                IF ~human_present /\ ShouldTriggerDetection(cd) THEN TRUE
                ELSE IF human_present /\ ShouldTriggerNonDetection(cnd, start, t)
                     THEN FALSE
                ELSE human_present
           /\ last_valid_distance' = Some(r.distance_mm)
           /\ now' = t
           /\ reading' = rd
           /\ was_present' = human_present
           /\ verdicts' = Remember(detected)
    /\ UNCHANGED det_config

\* the body of process_reading for None or an invalid reading, at clock
\* time t: _handle_invalid_reading
InvalidReadingEffect(rd, t) ==
    /\ consecutive_detections' = 0
    /\ consecutive_non_detections' = consecutive_non_detections + 1
    /\ human_present' =
         IF /\ human_present
            /\ consecutive_non_detections + 1 >= InvalidClearCount
         THEN FALSE ELSE human_present
    /\ now' = t
    /\ reading' = rd
    /\ was_present' = human_present
    /\ verdicts' = Remember(FALSE)
    /\ UNCHANGED <<det_config, last_valid_distance, detection_start_time>>

\* process_reading(reading) with a valid reading, called at time now + dt
ProcessValidReading(rd, dt) ==
    /\ impl = "detector"
    /\ UNCHANGED <<dispVars, pending, extVars>>
    /\ ~IsInvalid(rd)
    /\ now + dt <= MaxTime
    /\ DetectionsAfter(IsDetectionCriteriaMet(rd[1])) <= MaxCount
    /\ NonDetectionsAfter(IsDetectionCriteriaMet(rd[1])) <= MaxCount
    /\ ValidReadingEffect(rd, now + dt)

\* process_reading(reading) with None or an invalid reading:
\* _handle_invalid_reading
HandleInvalidReading(rd, dt) ==
    /\ impl = "detector"
    /\ UNCHANGED <<dispVars, pending, extVars>>
    /\ IsInvalid(rd)
    /\ now + dt <= MaxTime
    /\ consecutive_non_detections + 1 <= MaxCount
    /\ InvalidReadingEffect(rd, now + dt)

InitDetector ==
    /\ det_config \in DetectionConfigs
    /\ human_present = FALSE
    /\ consecutive_detections = 0
    /\ consecutive_non_detections = 0
    /\ last_valid_distance = None
    /\ detection_start_time = None
    /\ now = 0
    /\ reading = None
    /\ was_present = FALSE
    /\ verdicts = << >>
    /\ pending = << >>
    /\ impl = "detector"
    /\ DisplayIdle
    /\ ExtIdle

NextDetector ==
    \E rd \in Readings, dt \in TimeSteps :
        \/ ProcessValidReading(rd, dt)
        \/ HandleInvalidReading(rd, dt)

SpecDetector == InitDetector /\ [][NextDetector]_vars

(***************************************************************************)
(* The recorded run of demo_proximity_detection (src/_old/demo.py): a      *)
(* fresh detector is fed the readings of a person approaching, then        *)
(* readings of an empty room.                                              *)
(***************************************************************************)
ProximityReading(distance_mm, zones_in_range) ==
    [distance_mm |-> distance_mm, zones_in_range |-> zones_in_range,
     valid |-> TRUE]

\* test_readings
ApproachReadings ==
    <<ProximityReading(2000, 0), ProximityReading(1500, 1),
      ProximityReading(800, 3), ProximityReading(400, 6),
      ProximityReading(350, 7), ProximityReading(300, 8),
      ProximityReading(280, 8), ProximityReading(290, 8)>>

\* the reading of an empty room, as often as absence requires by default
FarReadings ==
    [i \in 1..DefaultNoPresenceRequired |-> ProximityReading(2000, 0)]

DemoReadings == ApproachReadings \o FarReadings

DemoConfigs ==
    [threshold_mm : {DefaultThresholdMm},
     detection_zones : {DefaultDetectionZones},
     consecutive_required : {2, DefaultConsecutiveRequired},
     no_presence_required : {DefaultNoPresenceRequired}]

\* one pass of the demo loop: process_reading(reading) at time now + dt
ReplayReading(dt) ==
    /\ impl = "detector"
    /\ UNCHANGED <<dispVars, extVars>>
    /\ pending # << >>
    /\ now + dt <= MaxTime
    /\ ValidReadingEffect(Some(Head(pending)), now + dt)
    /\ pending' = Tail(pending)

InitReplay ==
    /\ det_config \in DemoConfigs
    /\ human_present = FALSE
    /\ consecutive_detections = 0
    /\ consecutive_non_detections = 0
    /\ last_valid_distance = None
    /\ detection_start_time = None
    /\ now = 0
    /\ reading = None
    /\ was_present = FALSE
    /\ verdicts = << >>
    /\ pending = DemoReadings
    /\ impl = "detector"
    /\ DisplayIdle
    /\ ExtIdle

NextReplay == \E dt \in TimeSteps : ReplayReading(dt)

SpecReplay == InitReplay /\ [][NextReplay]_vars

(***************************************************************************)
(* Properties of the ProximityDetector (checked under SpecDetector).       *)
(***************************************************************************)
RECURSIVE TrailingRun(_, _)
\* how many of the most recent calls in a row had verdict b
TrailingRun(h, b) ==
    IF Len(h) = 0 THEN 0
    ELSE IF h[Len(h)] # b THEN 0
    ELSE 1 + TrailingRun(SubSeq(h, 1, Len(h) - 1), b)

QualifyingRun == TrailingRun(verdicts, TRUE)
NonQualifyingRun == TrailingRun(verdicts, FALSE)

\* the verdict of the call before the most recent one, if any
PreviousVerdict ==
    IF Len(verdicts) >= 2 THEN Some(verdicts[Len(verdicts) - 1]) ELSE None

DwellElapsed ==
    IF detection_start_time = None THEN TRUE
    ELSE now - detection_start_time[1] >= MinDetectionDuration

BecamePresent == ~was_present /\ human_present
BecameAbsent == was_present /\ ~human_present

\* C6: presence changes from false to true at a call if and only if that
\* call completes a window of consecutive_required consecutive qualifying
\* readings.
C6_PresentIffWindowCompleted ==
    ~was_present =>
        (human_present <=> QualifyingRun >= det_config.consecutive_required)

C6_Witness ==
    /\ BecamePresent
    /\ det_config.consecutive_required = MaxConsecutiveRequired
    /\ QualifyingRun = det_config.consecutive_required

\* C7 as claimed: presence changes from true to false at a call if and only
\* if no_presence_required consecutive non-qualifying readings have completed
\* at that call and at least 2 s have elapsed since the detection began.
C7_AbsentIffWindowAndDwell ==
    was_present =>
        (~human_present <=>
            /\ NonQualifyingRun >= det_config.no_presence_required
            /\ DwellElapsed)

\* C7 amended: at a call with a valid reading the rule is as claimed; at a
\* call with None or an invalid reading presence is cleared if and only if
\* 2 x no_presence_required consecutive non-qualifying readings have
\* completed, whatever time has elapsed.
C7_AbsentIffWindowByReadingKind ==
    was_present =>
        (~human_present <=>
            IF IsInvalid(reading)
            THEN NonQualifyingRun >= 2 * det_config.no_presence_required
            ELSE /\ NonQualifyingRun >= det_config.no_presence_required
                 /\ DwellElapsed)

C7_Witness ==
    /\ BecameAbsent
    /\ ~IsInvalid(reading)
    /\ det_config.no_presence_required = MaxNoPresenceRequired
    /\ NonQualifyingRun = det_config.no_presence_required

\* C8: a call with None or an invalid reading increments
\* consecutive_non_detections, resets consecutive_detections, never sets
\* presence, and clears presence exactly when presence is true and the count
\* has reached 2 x no_presence_required.
C8_InvalidReadingEffect ==
    [][IsInvalid(reading') =>
        /\ consecutive_non_detections' = consecutive_non_detections + 1
        /\ consecutive_detections' = 0
        /\ (human_present' => human_present)
        /\ (~human_present' <=>
              \/ ~human_present
              \/ consecutive_non_detections' >=
                     2 * det_config.no_presence_required)]_vars

C8_Witness ==
    /\ BecameAbsent
    /\ IsInvalid(reading)
    /\ det_config.no_presence_required = MaxNoPresenceRequired
    /\ consecutive_non_detections = 2 * det_config.no_presence_required

\* the call being made reads a valid distance more than 300 mm away from the
\* previous valid distance
JumpCall ==
    /\ ~IsInvalid(reading')
    /\ last_valid_distance # None
    /\ Abs(reading'[1].distance_mm - last_valid_distance[1]) > MaxRealisticChange

\* C9 as claimed: a reading that jumps by more than 300 mm never by itself
\* triggers a presence transition: when presence changes at such a call, the
\* call before it already spoke for the new state.
C9_JumpNeverTriggersAlone ==
    [][(JumpCall /\ human_present' # human_present) =>
        /\ Len(verdicts) >= 1
        /\ verdicts[Len(verdicts)] = human_present']_vars

\* C9 amended: a jumping reading never turns presence on; it counts as a
\* non-qualifying reading, so it turns presence off only when it completes
\* no_presence_required consecutive non-qualifying readings with the dwell
\* elapsed (by itself when no_presence_required = 1).
C9_JumpCountsAsNonDetection ==
    [][JumpCall =>
        /\ ~verdicts'[Len(verdicts')]
        /\ (human_present' => human_present)
        /\ (human_present /\ ~human_present' =>
              /\ NonQualifyingRun' >= det_config.no_presence_required
              /\ DwellElapsed'
              /\ (det_config.no_presence_required >= 2 =>
                    /\ Len(verdicts) >= 1
                    /\ ~verdicts[Len(verdicts)]))]_vars

\* a jumping reading that meets the distance and zone checks was processed
C9_Witness ==
    /\ BecameAbsent
    /\ ~IsInvalid(reading)
    /\ reading[1].distance_mm <= det_config.threshold_mm
    /\ reading[1].zones_in_range >= det_config.detection_zones
    /\ reading[1].zones_in_range >= 1

\* C10: consecutive_detections and consecutive_non_detections are never
\* both nonzero.
C10_CountersNeverBothNonzero ==
    ~(consecutive_detections # 0 /\ consecutive_non_detections # 0)

C10_Witness ==
    /\ consecutive_detections = 1
    /\ PreviousVerdict = Some(FALSE)


(***************************************************************************)
(* Properties of the recorded run (checked under SpecReplay).              *)
(***************************************************************************)
\* readings of the run processed so far
Processed == Len(DemoReadings) - Len(pending)
\* empty-room readings processed so far
FarProcessed == Processed - Len(ApproachReadings)

DefaultDetection ==
    /\ det_config.threshold_mm = DefaultThresholdMm
    /\ det_config.detection_zones = DefaultDetectionZones
    /\ det_config.consecutive_required = DefaultConsecutiveRequired

\* C11: with threshold_mm = 400, detection_zones = 6 and
\* consecutive_required = 3, a fresh detector fed 2000/0, 1500/1, 800/3,
\* 400/6, 350/7, 300/8 reports presence exactly at the 6th reading: false
\* after each of the readings 1 to 5, true after the 6th.
C11_PresentAtSixthReading ==
    (DefaultDetection /\ Processed \in 1..6) =>
        (human_present <=> Processed = 6)

\* C12: with presence true, the preceding reading a detection,
\* no_presence_required = 10 and the 2 s since the detection began elapsed,
\* ten consecutive valid readings of 2000 mm / 0 zones keep presence true
\* for the first nine and clear it at the 10th.
C12_AbsentAtTenthFarReading ==
    /\ (FarProcessed = 0 /\ pending # << >>) =>
            (human_present /\ verdicts[Len(verdicts)])
    /\ FarProcessed \in 1..(DefaultNoPresenceRequired - 1) => human_present
    /\ (FarProcessed = DefaultNoPresenceRequired /\ DwellElapsed) =>
            ~human_present

C12_Witness ==
    /\ FarProcessed = DefaultNoPresenceRequired
    /\ det_config.no_presence_required = DefaultNoPresenceRequired
    /\ DwellElapsed
    /\ BecameAbsent

(***************************************************************************)
(* Part 2: DisplayController (src/_old/display.py) and the workers of      *)
(* HomeDashSensor (src/_old/main.py).                                      *)
(*                                                                         *)
(* One action is one run of a task between two suspension points of the    *)
(* event loop.  A worker is at "poll" (reading or sleeping in its loop),   *)
(* "lock_wait" (queued on the lock), "await_cancelled" / "await_fade"     *)
(* (inside _start_fade) or "done".  A fade task is "created", "writing"   *)
(* (its write runs in the executor), "sleeping", "done" or "cancelled".   *)
(***************************************************************************)
\* int(): truncation toward zero of a / b, b > 0
TruncDiv(a, b) == IF a >= 0 THEN a \div b ELSE -((-a) \div b)

\* mutant: an easing curve that runs past 1 before it comes back
EasedNumOvershoot(easing, step, steps) ==
    IF step < steps THEN 2 * step ELSE step

\* _apply_easing(step / steps) as the fraction EasedNum / EasedDen
EasedNum(easing, step, steps) ==
    IF easing = "ease_in_out" THEN step * step * (3 * steps - 2 * step)
    ELSE IF easing = "quintic"
         THEN step * step * step
              * (6 * step * step - 15 * step * steps + 10 * steps * steps)
    ELSE step

EasedDen(easing, steps) ==
    IF easing = "ease_in_out" THEN steps * steps * steps
    ELSE IF easing = "quintic" THEN steps * steps * steps * steps * steps
    ELSE steps

\* the value _fade_worker writes at `step`
NewBrightness(start, target, step) ==
    LET steps == disp_config.fade_steps
        den == EasedDen(disp_config.fade_easing, steps)
        num == EasedNum(disp_config.fade_easing, step, steps)
    IN  IF step = steps THEN target
        ELSE TruncDiv(start * den + (target - start) * num, den)

\* mutant: the value is written as it comes
ClampToConfigNone(b) == b

\* the value _write_brightness puts into the file
ClampToConfig(b) ==
    Max(disp_config.min_brightness, Min(disp_config.max_brightness, b))

\* the target set_adaptive_brightness derives from a lux reading
AdaptiveTarget(lux) ==
    IF lux <= disp_config.light_threshold_low
    THEN disp_config.min_brightness + AdaptiveFloor
    ELSE IF lux >= disp_config.light_threshold_high
         THEN disp_config.max_brightness
    ELSE TruncDiv(AdaptiveFloor
                    * (disp_config.light_threshold_high
                       - disp_config.light_threshold_low)
                  + (lux - disp_config.light_threshold_low)
                    * (disp_config.max_brightness - AdaptiveFloor),
                  disp_config.light_threshold_high
                  - disp_config.light_threshold_low)

FadeRunning(f) == fades[f].status \in {"created", "writing", "sleeping"}
\* the record of a fade task that has ended: its locals are gone
Ended(how) == [NoFade EXCEPT !.status = how]

\* mutant: awaiting a task returns before the task has ended
FadeDoneAlways(f) == TRUE

\* Task.done()
FadeDone(f) == fades[f].status \in {"done", "cancelled"}
UnbornFades == {f \in FadeIds : fades[f].status = "unborn"}
\* the id the next create_task gets
NextFade == CHOOSE f \in UnbornFades : \A g \in UnbornFades : f <= g
\* the fade task in progress when a call is made, 0 if none
InFlight ==
    IF \E f \in FadeIds : FadeRunning(f)
    THEN CHOOSE f \in FadeIds :
             FadeRunning(f) /\ \A g \in FadeIds : FadeRunning(g) => g <= f
    ELSE 0

\* mutant: the worker goes back to its loop whatever _running is
ReturnToWorkerLoops(w, call, st) ==
    /\ state' = st
    /\ lock_owner' = None
    /\ wpc' = [wpc EXCEPT ![w] = "poll"]
    /\ previous_human_present' =
         IF w = "proximity" THEN call.op = "wake"
         ELSE previous_human_present
    /\ wreq' = [wreq EXCEPT ![w] = NoCall]

\* the lock is released: `async with` exits and the call returns to the
\* worker, which goes back to its loop (or leaves it once _running is false)
ReturnToWorker(w, call, st) ==
    /\ state' = st
    /\ lock_owner' = None
    /\ wpc' = [wpc EXCEPT ![w] = IF running THEN "poll" ELSE "done"]
    /\ previous_human_present' =
         IF w = "proximity" THEN call.op = "wake"
         ELSE previous_human_present
    /\ wreq' = [wreq EXCEPT ![w] = NoCall]

\* _start_fade from "self.state.target_brightness = ..." to the await of the
\* new fade task
LaunchFade(w, call) ==
    /\ state' = [state EXCEPT !.target_brightness = call.target,
                              !.is_fading = TRUE]
    /\ fades' = [fades EXCEPT ![NextFade] =
                   [NoFade EXCEPT !.status = "created",
                                  !.target = call.target,
                                  !.steps = disp_config.fade_steps,
                                  !.same = call.same]]
    /\ fade_task' = Some(NextFade)
    /\ wpc' = [wpc EXCEPT ![w] = "await_fade"]
    /\ wreq' = [wreq EXCEPT ![w] = call]
    /\ UNCHANGED previous_human_present

\* mutant: the body runs without taking the lock
LockNotTaken(w) == None

\* the holder of the lock once `async with self._lock` has been entered by
\* worker w
LockHeldBy(w) == Some(w)

\* _start_fade(target) called by worker w holding the lock
StartFade(w, call) ==
    /\ lock_owner' = LockHeldBy(w)
    /\ IF fade_task # None /\ ~FadeDone(fade_task[1])
       THEN \* "Cancel any existing fade": cancel it and wait for it
            /\ fades' = [fades EXCEPT
                           ![fade_task[1]] = Ended("cancelled")]
            /\ wpc' = [wpc EXCEPT ![w] = "await_cancelled"]
            /\ wreq' = [wreq EXCEPT ![w] = call]
            /\ UNCHANGED <<state, fade_task, previous_human_present>>
       ELSE LaunchFade(w, call)

\* the body of wake_display / sleep_display / set_adaptive_brightness
\* under the lock
Locked(w, call) ==
    IF call.op = "wake"
    THEN IF state.is_awake /\ state.target_brightness = call.target
         THEN /\ ReturnToWorker(w, call, state)
              /\ UNCHANGED <<fades, fade_task>>
         ELSE StartFade(w, call)
    ELSE IF call.op = "sleep"
    THEN IF ~state.is_awake
         THEN /\ ReturnToWorker(w, call, state)
              /\ UNCHANGED <<fades, fade_task>>
         ELSE StartFade(w, call)
    ELSE StartFade(w, call)

\* the call as it is issued: the fade in flight and whether the target is
\* the tracked brightness are noted (history)
Issued(call) ==
    [call EXCEPT !.inflight = InFlight,
                 !.same = (call.target = state.current_brightness)]

\* `async with self._lock`: taken at once when it is free and nobody waits,
\* otherwise the caller queues
Call(w, call) ==
    \* every call, queued ones included, is left one fade task to create
    /\ Cardinality(UnbornFades) > Len(lock_waiters)
    /\ last_request' = Some(call.target)
    /\ IF lock_owner = None /\ lock_waiters = << >>
       THEN /\ Locked(w, Issued(call))
            /\ UNCHANGED lock_waiters
       ELSE /\ lock_waiters' = Append(lock_waiters, w)
            /\ wpc' = [wpc EXCEPT ![w] = "lock_wait"]
            /\ wreq' = [wreq EXCEPT ![w] = Issued(call)]
            /\ UNCHANGED <<state, lock_owner, fades, fade_task,
                           previous_human_present>>

\* DisplayController.initialize followed by the start of the workers in
\* HomeDashSensor.run: the file is read, the value read is written back
\* (clamped) and recorded whether or not the write succeeded
Initialize(ok) ==
    /\ impl = "modular"
    /\ UNCHANGED notModular
    /\ app_pc = "init"
    /\ state' = [current_brightness |-> channel,
                 target_brightness |-> channel,
                 is_fading |-> FALSE,
                 is_awake |-> channel > 0]
    /\ channel' = IF ok THEN ClampToConfig(channel) ELSE channel
    /\ last_written' = IF ok THEN Some(ClampToConfig(channel)) ELSE last_written
    /\ write_failed' = (write_failed \/ ~ok)
    /\ app_pc' = "run"
    /\ running' = TRUE
    /\ UNCHANGED <<fade_task, fades, lock_owner, lock_waiters, wpc, wreq,
                   previous_human_present, last_request>>

\* DisplayController.initialize when no brightness file is found: it
\* returns False, so does HomeDashSensor.initialize, and run returns
\* before a worker is started
InitializeNoPath ==
    /\ impl = "modular"
    /\ UNCHANGED notModular
    /\ app_pc = "init"
    /\ app_pc' = "stopped"
    /\ UNCHANGED <<running, channel, last_written, write_failed, fade_task,
                   fades, state, lock_owner, lock_waiters, wpc, wreq,
                   previous_human_present, last_request>>

\* the lock has been released to its first waiter, which resumes in the
\* next iteration of the event loop: before any worker's sleep can end
HandoffPending == lock_owner = None /\ lock_waiters # << >>

\* mutant: wake and sleep are exchanged
PresenceRequestSwapped(hp) ==
    IF hp
    THEN [NoCall EXCEPT !.op = "sleep",
                        !.target = disp_config.min_brightness]
    ELSE [NoCall EXCEPT !.op = "wake",
                        !.target = disp_config.max_brightness]

\* the display call _proximity_worker makes when presence has changed to hp
PresenceRequest(hp) ==
    IF hp
    THEN [NoCall EXCEPT !.op = "wake",
                        !.target = disp_config.max_brightness]
    ELSE [NoCall EXCEPT !.op = "sleep",
                        !.target = disp_config.min_brightness]

\* one iteration of _proximity_worker in which process_reading returns hp
PollProximity(hp) ==
    /\ impl = "modular"
    /\ UNCHANGED notModular
    /\ app_pc = "run"
    /\ wpc["proximity"] = "poll"
    /\ ~HandoffPending
    /\ hp # previous_human_present
    /\ Call("proximity", PresenceRequest(hp))
    /\ UNCHANGED <<app_pc, running, channel, last_written, write_failed>>

\* one iteration of _light_worker with a valid reading of `lux`:
\* set_adaptive_brightness(lux)
PollLight(lux) ==
    /\ impl = "modular"
    /\ UNCHANGED notModular
    /\ app_pc = "run"
    /\ wpc["light"] = "poll"
    /\ ~HandoffPending
    /\ disp_config.adaptive_brightness_enabled
    /\ state.is_awake
    /\ Abs(AdaptiveTarget(lux) - state.target_brightness) > AdaptiveHysteresis
    /\ Call("light", [NoCall EXCEPT !.op = "adaptive",
                                    !.target = AdaptiveTarget(lux)])
    /\ UNCHANGED <<app_pc, running, channel, last_written, write_failed>>

\* a queued worker is handed the lock
LockAcquired(w) ==
    /\ impl = "modular"
    /\ UNCHANGED notModular
    /\ wpc[w] = "lock_wait"
    /\ lock_owner = None
    /\ Head(lock_waiters) = w
    /\ lock_waiters' = Tail(lock_waiters)
    /\ Locked(w, wreq[w])
    /\ UNCHANGED <<app_pc, running, channel, last_written, write_failed,
                   last_request>>

\* the task a worker awaits inside _start_fade has finished
FadeAwaited(w) ==
    /\ impl = "modular"
    /\ UNCHANGED notModular
    /\ wpc[w] \in {"await_cancelled", "await_fade"}
    /\ FadeDone(fade_task[1])
    /\ IF wpc[w] = "await_cancelled"
       THEN /\ LaunchFade(w, wreq[w])
            /\ UNCHANGED lock_owner
       ELSE /\ ReturnToWorker(w, wreq[w],
                 [state EXCEPT !.is_fading = FALSE,
                               !.is_awake =
                                  IF wreq[w].op = "wake" THEN TRUE
                                  ELSE IF wreq[w].op = "sleep" THEN FALSE
                                  ELSE @])
            /\ UNCHANGED <<fades, fade_task>>
    /\ UNCHANGED <<app_pc, running, channel, last_written, write_failed,
                   lock_waiters, last_request>>

\* _write_brightness(b) is entered: the write is handed to the executor
SubmitWrite(f, start, step) ==
    fades' = [fades EXCEPT ![f].status = "writing",
                           ![f].start = start,
                           ![f].step = step,
                           ![f].value = NewBrightness(start, fades[f].target, step)]

\* first run of _fade_worker
FadeWorkerStart(f) ==
    /\ impl = "modular"
    /\ UNCHANGED notModular
    /\ fades[f].status = "created"
    /\ IF fades[f].target - state.current_brightness = 0
       THEN fades' = [fades EXCEPT ![f] = Ended("done")]
       ELSE SubmitWrite(f, state.current_brightness, 0)
    /\ UNCHANGED <<app_pc, running, channel, last_written, write_failed,
                   fade_task, state, lock_owner, lock_waiters, wpc, wreq,
                   previous_human_present, last_request>>

\* mutant: the loop of _fade_worker is one step short
StepsRemainShort(step, steps) == step < steps - 1

\* `for step in range(steps + 1)`: another step follows `step`
StepsRemain(step, steps) == step < steps

\* what _fade_worker stores in state.current_brightness after a successful
\* write of v
RecordedBrightness(v) == v

\* mutant: a failed write is reported as a success
WriteBrightnessResultTrue(ok) == TRUE

\* what _write_brightness returns: True, or False when the write raised
WriteBrightnessResult(ok) == ok

\* the executor finishes the write of a fade step, with or without error
WriteReturns(f, ok) ==
    /\ impl = "modular"
    /\ UNCHANGED notModular
    /\ fades[f].status = "writing"
    /\ channel' = IF ok THEN ClampToConfig(fades[f].value) ELSE channel
    /\ last_written' =
         IF ok THEN Some(ClampToConfig(fades[f].value)) ELSE last_written
    /\ write_failed' = (write_failed \/ ~ok)
    /\ state' = IF WriteBrightnessResult(ok)
                THEN [state EXCEPT !.current_brightness =
                                      RecordedBrightness(fades[f].value)]
                ELSE state
    /\ fades' = [fades EXCEPT
                   ![f] = IF StepsRemain(fades[f].step, fades[f].steps)
                          THEN [@ EXCEPT !.status = "sleeping"]
                          ELSE Ended("done")]
    /\ UNCHANGED <<app_pc, running, fade_task, lock_owner, lock_waiters, wpc,
                   wreq, previous_human_present, last_request>>

\* asyncio.sleep(step_duration) returns and the next step is computed
SleepReturns(f) ==
    /\ impl = "modular"
    /\ UNCHANGED notModular
    /\ fades[f].status = "sleeping"
    /\ SubmitWrite(f, fades[f].start, fades[f].step + 1)
    /\ UNCHANGED <<app_pc, running, channel, last_written, write_failed,
                   fade_task, state, lock_owner, lock_waiters, wpc, wreq,
                   previous_human_present, last_request>>

\* _request_shutdown and the cancellation of the workers in _shutdown.
\* A worker that awaits its fade passes the cancellation on to the fade
\* task and resumes in _start_fade; a write that is in the executor at that
\* moment may or may not still reach the file (`lands`).
Shutdown(lands) ==
    /\ impl = "modular"
    /\ UNCHANGED notModular
    /\ app_pc = "run"
    /\ running' = FALSE
    /\ app_pc' = "shutdown"
    /\ wpc' = [w \in Workers |->
                 IF wpc[w] \in {"poll", "lock_wait"} THEN "done" ELSE wpc[w]]
    /\ wreq' = [w \in Workers |->
                  IF wpc[w] \in {"poll", "lock_wait"} THEN NoCall ELSE wreq[w]]
    /\ lock_waiters' = << >>
    /\ LET f == InFlight
           hit == f # 0 /\ lands /\ fades[f].status = "writing"
       IN  /\ fades' = IF f = 0 THEN fades
                       ELSE [fades EXCEPT ![f] = Ended("cancelled")]
           /\ channel' = IF hit THEN ClampToConfig(fades[f].value) ELSE channel
           /\ last_written' =
                IF hit THEN Some(ClampToConfig(fades[f].value))
                ELSE last_written
    /\ UNCHANGED <<write_failed, fade_task, state, lock_owner,
                   previous_human_present, last_request>>

\* the rest of _shutdown once every worker has ended:
\* DisplayController.cleanup
Cleanup ==
    /\ impl = "modular"
    /\ UNCHANGED notModular
    /\ app_pc = "shutdown"
    /\ \A w \in Workers : wpc[w] = "done"
    /\ app_pc' = "stopped"
    /\ fades' = IF fade_task # None /\ ~FadeDone(fade_task[1])
                THEN [fades EXCEPT
                        ![fade_task[1]] = Ended("cancelled")]
                ELSE fades
    /\ UNCHANGED <<running, channel, last_written, write_failed, fade_task,
                   state, lock_owner, lock_waiters, wpc, wreq,
                   previous_human_present, last_request>>

InitModular ==
    /\ impl = "modular"
    /\ disp_config \in DisplayConfigs
    /\ app_pc = "init"
    /\ running = FALSE
    /\ channel \in InitialBrightness
    /\ last_written = None
    /\ write_failed = FALSE
    /\ fade_task = None
    /\ fades = [f \in FadeSlots |-> NoFade]
    /\ last_request = None
    /\ ModularIdle
    /\ AllInOneIdle
    /\ DetectorIdle
    /\ ExtIdle

NextModular ==
    \/ \E ok \in BOOLEAN : Initialize(ok)
    \/ InitializeNoPath
    \/ \E hp \in BOOLEAN : PollProximity(hp)
    \/ \E lux \in LuxLevels : PollLight(lux)
    \/ \E w \in Workers : LockAcquired(w)
    \/ \E w \in Workers : FadeAwaited(w)
    \/ \E f \in FadeIds : FadeWorkerStart(f)
    \/ \E f \in FadeIds, ok \in BOOLEAN : WriteReturns(f, ok)
    \/ \E f \in FadeIds : SleepReturns(f)
    \/ \E lands \in BOOLEAN : Shutdown(lands)
    \/ Cleanup

SpecModular == InitModular /\ [][NextModular]_vars

(***************************************************************************)
(* Part 3: ProximityDisplaySystem and its DisplayController                *)
(* (src/proximity_display_control.py).                                     *)
(*                                                                         *)
(* The sensor loop and the light loop run one iteration per action.  A     *)
(* fade task (_fade_display) is "created", "polling" (asleep in            *)
(* `while self._fading`), "ramp" (asleep between two steps of fade_to),    *)
(* "done" or "cancelled".                                                  *)
(***************************************************************************)
AllInOneMinBrightness == 20
\* durations in milliseconds: fade_in_duration, fade_out_duration and the
\* fade_to(0, 0.5) of run
FadeInDurationMs == 2000
FadeOutDurationMs == 3000
BootFadeDurationMs == 500
\* the fade the light loop asks for lasts 1.0 s
LightFadeDurationMs == 1000
\* 1 / min_step_delay: fade_to allows at most 600 steps per second
MaxStepsPerSecond == 600

\* ambient light read by the all-in-one light loop: bright (current_lux is
\* 0, dark, until the first reading)
AllInOneLuxLevels == {600}

AllInOneConfigs ==
    [min_brightness : {AllInOneMinBrightness},
     max_brightness : {DefaultMaxBrightness},
     light_threshold_low : {DefaultLightThresholdLow},
     light_threshold_high : {DefaultLightThresholdHigh},
     adaptive_brightness_enabled : {TRUE},
     fade_steps : 1..MaxFadeSteps,
     fade_easing : Easings]

\* round(): to the nearest integer, halves to the even neighbour (b > 0)
RoundHalfEven(a, b) ==
    LET q == a \div b
        r == a % b
    IN  IF 2 * r < b THEN q
        ELSE IF 2 * r > b THEN q + 1
        ELSE IF q % 2 = 0 THEN q ELSE q + 1

\* the number of steps fade_to ends up with
EffectiveSteps(duration_ms, steps) ==
    IF duration_ms * MaxStepsPerSecond < 1000 * steps
    THEN (duration_ms * MaxStepsPerSecond) \div 1000
    ELSE steps

\* eased_t of fade_to at t = i / n, as the fraction FadeToNum / FadeToDen
FadeToNum(easing, i, n) ==
    IF easing = "quintic"
    THEN IF 2 * i < n THEN 32 * i * i * i * i * i
         ELSE 2 * n * n * n * n * n
              - (2 * n - 2 * i) * (2 * n - 2 * i) * (2 * n - 2 * i)
                * (2 * n - 2 * i) * (2 * n - 2 * i)
    ELSE IF easing = "linear" THEN i
    ELSE IF 2 * i < n THEN 8 * i * i * i
         ELSE 2 * n * n * n
              - (2 * n - 2 * i) * (2 * n - 2 * i) * (2 * n - 2 * i)

FadeToDen(easing, n) ==
    IF easing = "quintic" THEN 2 * n * n * n * n * n
    ELSE IF easing = "linear" THEN n
    ELSE 2 * n * n * n

\* the brightness fade_to computes at step i of n
FadeToBrightness(start, target, i, n) ==
    RoundHalfEven(start * FadeToDen(disp_config.fade_easing, n)
                  + (target - start) * FadeToNum(disp_config.fade_easing, i, n),
                  FadeToDen(disp_config.fade_easing, n))

\* the clamp of set_brightness and fade_to
ClampToDisplay(v) == Max(0, Min(v, display.max_brightness))

\* LightSensorController.calculate_adaptive_brightness(lux, max_brightness)
CalculateAdaptiveBrightness(lux, max_brightness) ==
    IF ~disp_config.adaptive_brightness_enabled THEN max_brightness
    ELSE LET low == disp_config.light_threshold_low
             high == disp_config.light_threshold_high
             lo == disp_config.min_brightness
             b == IF lux <= low THEN lo
                  ELSE IF lux >= high THEN max_brightness
                  ELSE TruncDiv(lo * (high - low)
                                + (lux - low) * (max_brightness - lo),
                                high - low)
         IN  Max(lo, Min(b, max_brightness))

\* mutant: a fade never waits for the fade that is running
FadingIgnored(sys) == FALSE

\* the test of `while self._fading`
Fading(sys) == sys.fading

\* _get_adaptive_brightness with the light sensor enabled
GetAdaptiveBrightness ==
    CalculateAdaptiveBrightness(current_lux, display.max_brightness)

\* asyncio.create_task(self._fade_display(target, duration))
NewFadeTask(target, duration_ms) ==
    [NoFade EXCEPT !.status = "created", !.target = target,
                   !.steps = EffectiveSteps(duration_ms, disp_config.fade_steps),
                   !.same = (target = display.current_brightness)]

\* fade_to up to its first sleep, entered by task f with _fading just set;
\* fs and sys are the fade tasks and the system fields at that point
EnterFadeTo(f, fs, sys) ==
    IF display.current_brightness = ClampToDisplay(fs[f].target)
    THEN /\ fades' = [fs EXCEPT ![f] = Ended("done")]
         /\ system' = [sys EXCEPT !.fading = FALSE]
    ELSE /\ fades' = [fs EXCEPT ![f] =
                        [@ EXCEPT !.status = "ramp",
                                  !.start = display.current_brightness,
                                  !.step = 0,
                                  !.value = display.current_brightness]]
         /\ system' = [sys EXCEPT !.fading = TRUE]

\* ProximityDisplaySystem.run up to the first sleep of fade_to(0, 0.5)
RunStart ==
    /\ impl = "allinone"
    /\ UNCHANGED notAllInOne
    /\ app_pc = "init"
    /\ IF display.current_brightness = 0
       THEN /\ app_pc' = "run"
            /\ running' = TRUE
            /\ UNCHANGED fades
       ELSE /\ app_pc' = "boot"
            /\ fades' = [fades EXCEPT ![BootFade] =
                           [NoFade EXCEPT
                              !.status = "ramp",
                              !.start = display.current_brightness,
                              !.value = display.current_brightness,
                              !.steps = EffectiveSteps(BootFadeDurationMs,
                                                       disp_config.fade_steps)]]
            /\ UNCHANGED running
    /\ UNCHANGED <<channel, last_written, write_failed, fade_task, display,
                   system, current_lux, last_request>>

\* one step of the loop of fade_to: the sleep returns, the next brightness
\* is computed and written if it changed; after the last step the caller
\* goes on (_fade_display clears _fading, run starts the loops)
RampStep(f, ok) ==
    /\ impl = "allinone"
    /\ UNCHANGED notAllInOne
    /\ fades[f].status = "ramp"
    /\ LET i == fades[f].step + 1
           b == FadeToBrightness(fades[f].start,
                                 ClampToDisplay(fades[f].target),
                                 i, fades[f].steps)
           writes == b # fades[f].value
           last == i = fades[f].steps
       IN  /\ ok \/ writes
           /\ channel' = IF writes /\ ok THEN ClampToDisplay(b) ELSE channel
           /\ last_written' =
                IF writes /\ ok THEN Some(ClampToDisplay(b)) ELSE last_written
           /\ display' =
                IF writes /\ ok
                THEN [display EXCEPT !.current_brightness = ClampToDisplay(b)]
                ELSE display
           /\ write_failed' = (write_failed \/ ~ok)
           /\ fades' = [fades EXCEPT ![f] =
                          IF last THEN Ended("done")
                          ELSE [@ EXCEPT !.step = i, !.value = b]]
           /\ system' = IF last /\ f # BootFade
                        THEN [system EXCEPT !.fading = FALSE] ELSE system
           /\ app_pc' = IF last /\ f = BootFade THEN "run" ELSE app_pc
           /\ running' = IF last /\ f = BootFade THEN TRUE ELSE running
    /\ UNCHANGED <<fade_task, current_lux, last_request>>

\* an iteration of _sensor_loop in which analyze_distances returns
\* presence_detected, different from human_present, more than 200 ms after
\* the previous change (every fade task created before has started by then)
SensorLoop(presence_detected) ==
    /\ impl = "allinone"
    /\ UNCHANGED notAllInOne
    /\ app_pc = "run"
    /\ running
    /\ presence_detected # system.human_present
    /\ \A f \in FadeIds : fades[f].status # "created"
    /\ UnbornFades # {}
    /\ LET target == IF presence_detected THEN GetAdaptiveBrightness ELSE 0
       IN  /\ system' =
                [system EXCEPT
                   !.human_present = presence_detected,
                   !.current_target_brightness =
                      IF presence_detected THEN target ELSE @]
           /\ fades' = [fades EXCEPT ![NextFade] =
                          NewFadeTask(target,
                                      IF presence_detected
                                      THEN FadeInDurationMs
                                      ELSE FadeOutDurationMs)]
           /\ last_request' = Some(target)
    /\ fade_task' = Some(NextFade)
    /\ UNCHANGED <<app_pc, running, channel, last_written, write_failed,
                   display, current_lux>>

\* an iteration of _light_sensor_loop that reads `lux`
LightLoop(lux) ==
    /\ impl = "allinone"
    /\ UNCHANGED notAllInOne
    /\ app_pc = "run"
    /\ running
    /\ current_lux' = lux
    /\ IF system.human_present
       THEN LET new_target ==
                    CalculateAdaptiveBrightness(lux, display.max_brightness)
                \* _get_adaptive_brightness has stored its result already
                stored == [system EXCEPT
                             !.current_target_brightness = new_target]
            IN  IF new_target # stored.current_target_brightness
                THEN /\ system' = stored
                     /\ fades' = [fades EXCEPT ![NextFade] =
                                    NewFadeTask(new_target,
                                                LightFadeDurationMs)]
                     /\ fade_task' = Some(NextFade)
                     /\ last_request' = Some(new_target)
                ELSE /\ system' = stored
                     /\ UNCHANGED <<fades, fade_task, last_request>>
       ELSE UNCHANGED <<system, fades, fade_task, last_request>>
    /\ UNCHANGED <<app_pc, running, channel, last_written, write_failed,
                   display>>

\* the fade tasks after task f has run "Cancel any existing fade task":
\* a task other than f that _fade_task names is cancelled
AfterCancel(f) ==
    IF fade_task # None /\ ~FadeDone(fade_task[1]) /\ fade_task[1] # f
    THEN [fades EXCEPT ![fade_task[1]] = Ended("cancelled")]
    ELSE fades

\* _fade_display from its start to its first sleep.  When _fade_task names
\* the task itself, cancel() and the await of itself end in a
\* CancelledError that is swallowed; a ramp cancelled here clears _fading
\* on its way out.
FadeDisplayStart(f) ==
    /\ impl = "allinone"
    /\ UNCHANGED notAllInOne
    /\ fades[f].status = "created"
    /\ LET live == fade_task # None /\ ~FadeDone(fade_task[1])
           hit == live /\ fade_task[1] # f
                       /\ fades[fade_task[1]].status = "ramp"
           sys == IF hit THEN [system EXCEPT !.fading = FALSE] ELSE system
       IN  /\ fade_task' = IF live THEN None ELSE fade_task
           /\ IF Fading(sys)
              THEN /\ fades' = [AfterCancel(f) EXCEPT ![f].status = "polling"]
                   /\ system' = sys
              ELSE EnterFadeTo(f, AfterCancel(f), sys)
    /\ UNCHANGED <<app_pc, running, channel, last_written, write_failed,
                   display, current_lux, last_request>>

\* the 10 ms sleep of `while self._fading` returns and _fading is clear
FadePoll(f) ==
    /\ impl = "allinone"
    /\ UNCHANGED notAllInOne
    /\ fades[f].status = "polling"
    /\ ~Fading(system)
    /\ EnterFadeTo(f, fades, system)
    /\ UNCHANGED <<app_pc, running, channel, last_written, write_failed,
                   fade_task, display, current_lux, last_request>>

InitAllInOne ==
    /\ impl = "allinone"
    /\ disp_config \in AllInOneConfigs
    /\ app_pc = "init"
    /\ running = FALSE
    /\ channel \in InitialBrightness
    /\ last_written = None
    /\ write_failed = FALSE
    /\ fade_task = None
    /\ fades = [f \in FadeSlots |-> NoFade]
    /\ last_request = None
    /\ display = [current_brightness |-> channel,
                  max_brightness |-> DefaultMaxBrightness]
    /\ system = [human_present |-> FALSE, current_target_brightness |-> 0,
                 fading |-> FALSE]
    /\ current_lux = 0
    /\ ModularIdle
    /\ DetectorIdle
    /\ ExtIdle

NextAllInOne ==
    \/ RunStart
    \/ \E f \in FadeSlots, ok \in BOOLEAN : RampStep(f, ok)
    \/ \E presence_detected \in BOOLEAN : SensorLoop(presence_detected)
    \/ \E lux \in AllInOneLuxLevels : LightLoop(lux)
    \/ \E f \in FadeIds : FadeDisplayStart(f)
    \/ \E f \in FadeIds : FadePoll(f)

SpecAllInOne == InitAllInOne /\ [][NextAllInOne]_vars

(***************************************************************************)
(* Part 4: DisplayManager (src/sensors/display_manager.py), the display    *)
(* object of the current program, driven through its methods               *)
(* set_adaptive_brightness and fade_to.  fade_to is synchronous: it writes *)
(* its ramp in steps of FADE_STEP and then the target before it returns.   *)
(* The object keeps a DisplayState (state) that no method assigns, and the *)
(* max_brightness of the device (display.max_brightness).                  *)
(***************************************************************************)
\* what the DisplayManager never touches
notManager == <<detVars, extVars, impl, disp_config, running, fade_task, fades, state,
                lock_owner, lock_waiters, wpc, wreq, previous_human_present,
                display, system, current_lux>>

\* ambient light: dark, dim, and two bright readings whose adaptive targets
\* lie within the hysteresis margin of each other
ManagerLuxLevels == {5, 20, 490, 600}

\* DisplayManager.set_brightness: the value that reaches the file
ClampToDevice(value) == Max(0, Min(value, display.max_brightness))

\* DisplayManager.fade_to(target); a write that raises ends the program
FadeTo(target, ok) ==
    /\ channel' = IF ok THEN ClampToDevice(target) ELSE channel
    /\ last_written' = IF ok THEN Some(ClampToDevice(target)) ELSE last_written
    /\ write_failed' = (write_failed \/ ~ok)
    /\ app_pc' = IF ok THEN app_pc ELSE "stopped"
    /\ last_request' = Some(target)

\* the test of set_adaptive_brightness that lets the fade through
ManagerAdjusts(target) ==
    Abs(target - state.target_brightness) > AdaptiveHysteresis

\* DisplayManager.set_adaptive_brightness(lux)
ManagerSetAdaptiveBrightness(lux, ok) ==
    /\ impl = "manager"
    /\ UNCHANGED notManager
    /\ app_pc = "run"
    /\ IF /\ disp_config.adaptive_brightness_enabled
          /\ ManagerAdjusts(AdaptiveTarget(lux))
       THEN FadeTo(AdaptiveTarget(lux), ok)
       ELSE /\ ok
            /\ UNCHANGED <<channel, last_written, write_failed, app_pc,
                           last_request>>

\* DisplayManager.fade_to called by the program itself: fade_to(0) when the
\* person has left, fade_to(max_brightness) without adaptive brightness
ManagerFadeTo(target, ok) ==
    /\ impl = "manager"
    /\ UNCHANGED notManager
    /\ app_pc = "run"
    /\ FadeTo(target, ok)

InitManager ==
    /\ impl = "manager"
    /\ disp_config \in DisplayConfigs
    /\ app_pc = "run"
    /\ running = FALSE
    /\ channel \in InitialBrightness
    /\ last_written = None
    /\ write_failed = FALSE
    /\ fade_task = None
    /\ fades = [f \in FadeSlots |-> NoFade]
    /\ last_request = None
    /\ display = [current_brightness |-> 0,
                  max_brightness |-> DefaultMaxBrightness]
    /\ system = [human_present |-> FALSE, current_target_brightness |-> 0,
                 fading |-> FALSE]
    /\ current_lux = 0
    /\ ModularIdle
    /\ DetectorIdle
    /\ ExtIdle

NextManager ==
    \/ \E lux \in ManagerLuxLevels, ok \in BOOLEAN :
           ManagerSetAdaptiveBrightness(lux, ok)
    \/ \E target \in {0, display.max_brightness}, ok \in BOOLEAN :
           ManagerFadeTo(target, ok)

SpecManager == InitManager /\ [][NextManager]_vars

(***************************************************************************)
(* Adaptive brightness in the modular program and in the DisplayManager.   *)
(***************************************************************************)
InitAdaptive == InitModular \/ InitManager
NextAdaptive == NextModular \/ NextManager
SpecAdaptive == InitAdaptive /\ [][NextAdaptive]_vars

(***************************************************************************)
(* Either display program.                                                 *)
(***************************************************************************)
InitDisplay == InitModular \/ InitAllInOne
NextDisplay == NextModular \/ NextAllInOne
SpecDisplay == InitDisplay /\ [][NextDisplay]_vars

\* a step of fade task f
FadeStep(f) ==
    \/ FadeWorkerStart(f)
    \/ \E ok \in BOOLEAN : WriteReturns(f, ok)
    \/ SleepReturns(f)
    \/ \E ok \in BOOLEAN : RampStep(f, ok)
    \/ FadeDisplayStart(f)
    \/ FadePoll(f)

(***************************************************************************)
(* Properties of the display programs.                                     *)
(***************************************************************************)
\* the brightness the program tracks
TrackedBrightness ==
    IF impl = "modular" THEN state.current_brightness
    ELSE display.current_brightness

\* fade f is between its first and its last step
Ramping(f) == fades[f].status \in {"writing", "sleeping", "ramp"}

\* every fade request that was issued has returned
Quiescent ==
    /\ app_pc = "run"
    /\ \A w \in Workers : wpc[w] = "poll"
    /\ \A f \in FadeIds : fades[f].status \in {"unborn", "done", "cancelled"}

\* C1: in the modular DisplayController, a fade that is in progress when a
\* new fade request is issued is cancelled before the fade of the new
\* request starts.
C1_InFlightFadeCancelled ==
    \A w \in Workers :
        (impl = "modular" /\ wpc[w] = "await_fade" /\ wreq[w].inflight # 0)
            => fades[wreq[w].inflight].status = "cancelled"

C3_LastRequestWins ==
    (Quiescent /\ ~write_failed /\ last_request # None)
        => TrackedBrightness = last_request[1]

\* C4: in the modular DisplayController, after initialize,
\* state.current_brightness equals the last value successfully written to
\* the brightness channel.
C4_TrackedEqualsLastWritten ==
    (impl = "modular" /\ app_pc # "init" /\ last_written # None)
        => state.current_brightness = last_written[1]

\* the steps a ramp has behind it
Progress(f) ==
    2 * fades[f].step + (IF fades[f].status = "sleeping" THEN 1 ELSE 0)

InRange(b) == b >= disp_config.min_brightness /\ b <= disp_config.max_brightness

\* C13: a brightness write that fails during a modular fade does not abort
\* the ramp: the remaining steps are still attempted, current_brightness is
\* not advanced by the failed step, and the fade request returns to its
\* caller without an error (the worker that issued it goes on polling).
C13_FailedWriteDoesNotAbort ==
    /\ [](\A f \in FadeIds :
            (impl = "modular" /\ fades[f].status = "sleeping")
                => /\ fades[f].step < fades[f].steps
                   /\ ENABLED SleepReturns(f))
    /\ []((impl = "modular" /\ app_pc = "run")
            => \A w \in Workers : wpc[w] # "done")
    /\ [][\A f \in FadeIds :
            WriteReturns(f, FALSE) =>
                /\ state' = state
                /\ wpc' = wpc
                /\ fades'[f].status =
                     IF fades[f].step < fades[f].steps
                     THEN "sleeping" ELSE "done"
                /\ (fades[f].step < fades[f].steps =>
                        fades'[f].step = fades[f].step)]_vars

\* a fade whose last write failed has ended and its request has returned
C13_Witness ==
    /\ impl = "modular"
    /\ app_pc = "run"
    /\ write_failed
    /\ fade_task # None
    /\ fades[fade_task[1]].status = "done"
    /\ \A w \in Workers : wpc[w] = "poll"
    /\ state.current_brightness # state.target_brightness
    /\ last_written # None
    /\ last_written[1] = state.current_brightness

\* C14: DisplayState.current_brightness and DisplayState.target_brightness
\* always lie within [min_brightness, max_brightness].
C14_StateWithinRange ==
    (impl = "modular" /\ app_pc # "init") =>
        /\ InRange(state.current_brightness)
        /\ InRange(state.target_brightness)

\* C15: every value the modular fade engine writes to the brightness channel
\* lies within [min_brightness, max_brightness].
C15_WritesWithinRange ==
    (impl = "modular" /\ last_written # None) =>
        /\ InRange(last_written[1])
        /\ InRange(channel)

\* a fade has ended at a target below min_brightness and the file holds
\* min_brightness
C15_Witness ==
    /\ impl = "modular"
    /\ ~write_failed
    /\ fade_task # None
    /\ fades[fade_task[1]].status = "done"
    /\ state.target_brightness > 0
    /\ state.target_brightness < disp_config.min_brightness
    /\ state.current_brightness = state.target_brightness
    /\ last_written = Some(disp_config.min_brightness)

\* C16: during a fade a step's value is written only if it differs from the
\* last value written, so no two consecutive writes of one fade carry the
\* same value: the value a modular fade hands to the write differs from the
\* value of its previous step, and a step of the all-in-one fade_to that
\* changes the last written value writes a value other than the last one.
C16_NoRepeatedWrite ==
    [][\A f \in FadeSlots :
        /\ (impl = "modular" /\ ~write_failed
            /\ fades[f].status = "sleeping" /\ fades'[f].status = "writing")
               => ClampToConfig(fades'[f].value) # ClampToConfig(fades[f].value)
        /\ (impl = "allinone" /\ fades[f].status = "ramp"
            /\ last_written' # last_written)
               => last_written'[1] # ClampToDisplay(fades[f].value)]_vars

\* C17: a fade request whose target equals current_brightness at request
\* time performs no brightness write (its fade never gets to a step that
\* writes) and so leaves current_brightness unchanged.
C17_SameTargetIsNoOp ==
    \A f \in FadeIds :
        fades[f].same => fades[f].status \notin {"writing", "sleeping", "ramp"}

\* the call the proximity worker makes for the presence transition that
\* follows previous_human_present
TransitionOp == IF previous_human_present THEN "sleep" ELSE "wake"
InCall(w) == wpc[w] \in {"lock_wait", "await_cancelled", "await_fade"}

\* C18: in the proximity worker of the modular orchestrator every presence
\* transition produces exactly one fade request, wake_display on absent to
\* present and sleep_display on present to absent, and the request is issued
\* before the worker processes its next reading: the worker stays inside that
\* one call until it returns, and only then records the new presence.
C18_OneRequestPerTransition ==
    /\ []((impl = "modular" /\ InCall("proximity"))
            => wreq["proximity"].op = TransitionOp)
    /\ [][(impl = "modular" /\ wpc["proximity"] = "poll"
           /\ (InCall("proximity")' \/
               previous_human_present' # previous_human_present))
            => /\ last_request' =
                    Some(IF TransitionOp = "wake"
                         THEN disp_config.max_brightness
                         ELSE disp_config.min_brightness)
               /\ (InCall("proximity")' =>
                      /\ wreq'["proximity"].op = TransitionOp
                      /\ previous_human_present' = previous_human_present)
               /\ (wpc'["proximity"] = "poll" =>
                      previous_human_present' = ~previous_human_present)]_vars
    /\ [][(impl = "modular" /\ InCall("proximity"))
            => \/ /\ InCall("proximity")'
                  /\ wreq'["proximity"] = wreq["proximity"]
                  /\ previous_human_present' = previous_human_present
               \/ /\ wreq'["proximity"] = NoCall
                  /\ wpc'["proximity"] = "poll"
                  /\ previous_human_present' = (wreq["proximity"].op = "wake")
               \/ /\ wreq'["proximity"] = NoCall
                  /\ wpc'["proximity"] = "done"
                  /\ ~running']_vars

\* presence was lost and the sleep request is in progress
C18_Witness ==
    /\ impl = "modular"
    /\ previous_human_present
    /\ wpc["proximity"] = "await_fade"
    /\ wreq["proximity"].op = "sleep"
    /\ \E f \in FadeIds : fades[f].status = "sleeping"

\* C19: while the pollers run, every mutation of DisplayState and every
\* brightness write of the modular DisplayController happens while the lock
\* is held by the task whose request it serves.
C19_MutationsUnderLock ==
    [][(impl = "modular" /\ app_pc = "run" /\ app_pc' = "run") =>
        /\ (state' # state) =>
              \E w \in Workers :
                  /\ lock_owner = Some(w) \/ lock_owner' = Some(w)
                  /\ wreq[w] # NoCall \/ wreq'[w] # NoCall
        /\ \A f \in FadeIds :
              (fades[f].status = "writing" /\ fades'[f].status # "writing")
                  => \E w \in Workers :
                        /\ lock_owner = Some(w)
                        /\ wpc[w] = "await_fade"
                        /\ fade_task = Some(f)
                        /\ wreq[w].target = fades[f].target]_vars

\* a step of a fade is being written for the light worker while the
\* proximity worker waits for the lock
C19_Witness ==
    /\ impl = "modular"
    /\ lock_owner = Some("light")
    /\ wpc["proximity"] = "lock_wait"
    /\ \E f \in FadeIds : fades[f].status = "writing" /\ fades[f].step >= 1

\* C20: set_adaptive_brightness issues a retargeting fade only when the
\* adaptive target it computes differs by more than 10 from the target of
\* the most recently requested fade; when the difference is 10 or less it
\* performs no write and leaves the display state unchanged (modular
\* DisplayController and DisplayManager).
C20_RetargetOnlyBeyondHysteresis ==
    [][/\ (impl = "modular" /\ wpc["light"] = "poll" /\ InCall("light")'
           /\ last_request # None)
              => Abs(wreq'["light"].target - last_request[1])
                     > AdaptiveHysteresis
       /\ \A lux \in ManagerLuxLevels :
              (/\ \E ok \in BOOLEAN : ManagerSetAdaptiveBrightness(lux, ok)
               /\ last_request # None
               /\ Abs(AdaptiveTarget(lux) - last_request[1])
                      <= AdaptiveHysteresis)
                  => UNCHANGED <<channel, last_written, state,
                                 last_request>>]_vars

\* C21: a light-driven retarget fade is only executed while presence is
\* true: once the sleep_display fade of a present-to-absent transition has
\* completed and until the next wake_display is requested, no fade started
\* by set_adaptive_brightness writes to the brightness channel.
C21_NoAdaptiveFadeWhileAbsent ==
    (/\ impl = "modular"
     /\ app_pc = "run"
     /\ ~state.is_awake
     /\ ~previous_human_present
     /\ wpc["proximity"] = "poll")
        => ~(/\ wpc["light"] = "await_fade"
             /\ fades[fade_task[1]].status \in {"writing", "sleeping"})

(***************************************************************************)
(* Part 5: the lux-to-brightness mappings on their own.                    *)
(*                                                                         *)
(* The target computation of set_adaptive_brightness (the same text in     *)
(* src/_old/display.py and in src/sensors/display_manager.py) and          *)
(* calculate_adaptive_brightness (src/proximity_display_control.py) are    *)
(* applied to lux readings under configurations with                       *)
(* min_brightness <= max_brightness and                                    *)
(* light_threshold_low < light_threshold_high.                             *)
(***************************************************************************)
MapperConfigs ==
    [min_brightness : {DefaultMinBrightness, 20, 60},
     max_brightness : {100, DefaultMaxBrightness},
     light_threshold_low : {DefaultLightThresholdLow},
     light_threshold_high : {DefaultLightThresholdHigh},
     adaptive_brightness_enabled : {TRUE},
     fade_steps : {1},
     fade_easing : {"linear"}]

\* lux readings: below, at and between the thresholds, at and above the
\* high threshold
MapperLux == {0, 5, 10, 20, 250, 490, 500, 600}

Mapped(fn, lux, brightness) ==
    Some([fn |-> fn, lux |-> lux, brightness |-> brightness])

\* the target computation of set_adaptive_brightness
MapAdaptiveTarget(fn, lux) ==
    /\ impl = "mapper"
    /\ UNCHANGED <<detVars, dispVars, sensor, app>>
    /\ mapped' = Mapped(fn, lux, AdaptiveTarget(lux))

\* calculate_adaptive_brightness(lux, max_brightness)
MapCalculateAdaptiveBrightness(lux) ==
    /\ impl = "mapper"
    /\ UNCHANGED <<detVars, dispVars, sensor, app>>
    /\ mapped' = Mapped("LightSensorController", lux,
                        CalculateAdaptiveBrightness(
                            lux, disp_config.max_brightness))

InitMapper ==
    /\ impl = "mapper"
    /\ disp_config \in MapperConfigs
    /\ app_pc = "init"
    /\ running = FALSE
    /\ channel = 0
    /\ last_written = None
    /\ write_failed = FALSE
    /\ fade_task = None
    /\ fades = [f \in FadeSlots |-> NoFade]
    /\ last_request = None
    /\ ModularIdle
    /\ AllInOneIdle
    /\ DetectorIdle
    /\ ExtIdle

NextMapper ==
    \/ \E fn \in {"DisplayController", "DisplayManager"}, lux \in MapperLux :
           MapAdaptiveTarget(fn, lux)
    \/ \E lux \in MapperLux : MapCalculateAdaptiveBrightness(lux)

SpecMapper == InitMapper /\ [][NextMapper]_vars

\* C22: every lux-to-brightness mapping is monotonically non-decreasing in
\* lux: when the same mapping is applied to a lux reading and then to one
\* that is not smaller, the second brightness is not smaller than the first.
C22_MappingMonotone ==
    [][(/\ mapped # None
        /\ mapped' # None
        /\ mapped'[1].fn = mapped[1].fn
        /\ mapped[1].lux <= mapped'[1].lux)
          => mapped[1].brightness <= mapped'[1].brightness]_vars

\* C23: every lux-to-brightness mapping returns a value within
\* [min_brightness, max_brightness].
C23_MappingWithinRange ==
    mapped # None
        => /\ disp_config.min_brightness <= mapped[1].brightness
           /\ mapped[1].brightness <= disp_config.max_brightness

\* C24: with max_brightness 255, min_brightness 0, light_threshold_low 10
\* and light_threshold_high 500, lux 250 maps to the brightness linearly
\* interpolated between min_brightness and max_brightness, 124.9: between
\* its truncation 124 and the "about 130" of the scenario, rounding included.
C24_InterpolatedAt250 ==
    (/\ mapped # None
     /\ disp_config.min_brightness = 0
     /\ disp_config.max_brightness = 255
     /\ disp_config.light_threshold_low = 10
     /\ disp_config.light_threshold_high = 500
     /\ mapped[1].lux = 250)
        => mapped[1].brightness \in 124..131

(***************************************************************************)
(* Part 6: the proximity poll of the modular program.  One iteration of    *)
(* _proximity_worker (src/_old/main.py) awaits                             *)
(* VL53L5CXSensor.read_proximity (src/_old/sensors.py) and hands what it   *)
(* returns to ProximityDetector.process_reading.  The sensor is            *)
(* initialized with its hardware; the display calls that follow a change   *)
(* of presence are those of Part 2.                                        *)
(***************************************************************************)
\* what _process_ranging_data can report
SensorReadings == ValidReadings \cup InvalidReadings

\* _simulate_proximity_reading: random.random() < 0.1 decides
SimulateProximityReading(detecting) ==
    IF detecting THEN ProximityReading(300, 8) ELSE ProximityReading(2000, 0)

\* process_reading(reading) at clock time t
ProcessReading(rd, t) ==
    IF IsInvalid(rd) THEN InvalidReadingEffect(rd, t)
    ELSE ValidReadingEffect(rd, t)

\* the clock and the counters stay within the bounds of the model
WithinBounds(rd, dt) ==
    /\ now + dt <= MaxTime
    /\ IF IsInvalid(rd) THEN consecutive_non_detections + 1 <= MaxCount
       ELSE /\ DetectionsAfter(IsDetectionCriteriaMet(rd[1])) <= MaxCount
            /\ NonDetectionsAfter(IsDetectionCriteriaMet(rd[1])) <= MaxCount

\* read_proximity with data ready: the processed ranging data are kept as
\* _last_reading and returned
ReadNewData(r, dt) ==
    /\ impl = "poller"
    /\ UNCHANGED <<dispVars, pending, app, mapped>>
    /\ WithinBounds(Some(r), dt)
    /\ sensor' = [last_reading |-> Some(r), outcome |-> "new"]
    /\ ProcessReading(Some(r), now + dt)

\* read_proximity without new data (data not ready, no ranging data, or a
\* status code 133..135): _last_reading is returned again
ReadNoNewData(dt) ==
    /\ impl = "poller"
    /\ UNCHANGED <<dispVars, pending, app, mapped>>
    /\ WithinBounds(sensor.last_reading, dt)
    /\ sensor' = [sensor EXCEPT !.outcome = "repeat"]
    /\ ProcessReading(sensor.last_reading, now + dt)

\* read_proximity when the driver raises anything else: the error is
\* logged and a simulated reading is returned
ReadFault(detecting, dt) ==
    /\ impl = "poller"
    /\ UNCHANGED <<dispVars, pending, app, mapped>>
    /\ WithinBounds(Some(SimulateProximityReading(detecting)), dt)
    /\ sensor' = [sensor EXCEPT !.outcome = "fault"]
    /\ ProcessReading(Some(SimulateProximityReading(detecting)), now + dt)

InitPoller ==
    /\ det_config \in DetectionConfigs
    /\ human_present = FALSE
    /\ consecutive_detections = 0
    /\ consecutive_non_detections = 0
    /\ last_valid_distance = None
    /\ detection_start_time = None
    /\ now = 0
    /\ reading = None
    /\ was_present = FALSE
    /\ verdicts = << >>
    /\ pending = << >>
    /\ impl = "poller"
    /\ DisplayIdle
    /\ ExtIdle

NextPoller ==
    \/ \E r \in SensorReadings, dt \in TimeSteps : ReadNewData(r, dt)
    \/ \E dt \in TimeSteps : ReadNoNewData(dt)
    \/ \E detecting \in BOOLEAN, dt \in TimeSteps : ReadFault(detecting, dt)

SpecPoller == InitPoller /\ [][NextPoller]_vars

\* the per-reading verdict of the most recent process_reading
LastVerdict == verdicts[Len(verdicts)]

\* C25: a proximity read that hits an unexpected hardware fault is treated
\* as absent: the reading processed for that poll is never counted as a
\* detection.
C25_FaultedReadIsAbsent ==
    (impl = "poller" /\ sensor.outcome = "fault")
        => /\ ~LastVerdict
           /\ consecutive_detections = 0

\* C28: when the sensor has no new data and read_proximity returns the
\* reading that was processed last, processing it again gives the same
\* per-reading verdict as before.
C28_RepeatedReadingSameVerdict ==
    [][(/\ impl = "poller"
        /\ verdicts # << >>
        /\ sensor'.outcome = "repeat"
        /\ reading = sensor.last_reading)
          => LastVerdict' = LastVerdict]_vars

\* C26: when the brightness channel is unavailable the modular program
\* still runs its pollers: it stops only after its workers have been
\* started and shut down, never before polling starts.
C26_RunsWithoutBrightnessChannel ==
    (impl = "modular" /\ app_pc = "stopped")
        => \A w \in Workers : wpc[w] = "done"

(***************************************************************************)
(* Part 7: HomeDashboardApp (src/main.py), the program built on the        *)
(* DisplayManager of Part 4.  One action is one pass of the loop of run    *)
(* with ranging data that hold a valid distance; passes without such data  *)
(* change nothing.  An exception that leaves run is caught by main, which  *)
(* logs it and exits: "stopped".                                           *)
(***************************************************************************)
\* what HomeDashboardApp never touches
notApp == <<detVars, sensor, mapped, impl, disp_config, running, fade_task,
            fades, state, lock_owner, lock_waiters, wpc, wreq,
            previous_human_present, system, current_lux>>

AppConfigs ==
    [min_brightness : {DefaultMinBrightness, 60},
     max_brightness : {DefaultMaxBrightness},
     light_threshold_low : {DefaultLightThresholdLow},
     light_threshold_high : {DefaultLightThresholdHigh},
     adaptive_brightness_enabled : BOOLEAN,
     fade_steps : {1},
     fade_easing : {"linear"}]

LightReading(lux, valid) == [lux |-> lux, valid |-> valid]

\* what LuxSensor.get_lux can return: a valid reading, or lux 0.0 marked
\* invalid when the sensor is missing or its read raises
LightReadings ==
    {LightReading(lux, TRUE) : lux \in ManagerLuxLevels}
        \cup {LightReading(0, FALSE)}

\* mutant: the validity of the light reading is not looked at
UseAdaptiveUnchecked(rd) == disp_config.adaptive_brightness_enabled

\* the test that sends the wake to set_adaptive_brightness
UseAdaptive(rd) == disp_config.adaptive_brightness_enabled /\ rd.valid

\* HomeDashboardApp.__init__: DisplayManager(config) looks for the
\* backlight and reads its max_brightness, or raises RuntimeError
AppConstruct(found) ==
    /\ impl = "app"
    /\ UNCHANGED notApp
    /\ app_pc = "init"
    /\ app_pc' = IF found THEN "run" ELSE "stopped"
    /\ display' = IF found
                  THEN [display EXCEPT !.max_brightness = DefaultMaxBrightness]
                  ELSE display
    /\ UNCHANGED <<channel, last_written, write_failed, last_request, app>>

\* seconds after which a screen with nobody in front of it is switched off
AbsenceLimit == 2
\* time.monotonic() - last_seen is kept in whole seconds up to the first
\* value that exceeds the limit
ElapsedCap == AbsenceLimit + 1
\* seconds that may pass between two passes of the loop
PassSeconds == {0, 1}

\* time.monotonic() - last_seen, dt seconds after the previous pass
ElapsedAfter(dt) == Min(app.elapsed + dt, ElapsedCap)

\* mutant: the limit itself counts as elapsed
AbsenceElapsedEarly(e) == e >= AbsenceLimit

\* the test on the time since somebody was last seen
AbsenceElapsed(e) == e > AbsenceLimit

\* app.frame is the kind of the frame processed last, app.frames the
\* number of frames processed so far, modulo 2
\* a pass of run with a distance below the threshold: last_seen is set to
\* the clock, and when the screen is off, the light is read and the display
\* is faded in
AppHumanDetected(rd, ok) ==
    /\ impl = "app"
    /\ UNCHANGED <<notApp, display>>
    /\ app_pc = "run"
    /\ IF app.screen_on
       THEN /\ ok
            /\ UNCHANGED <<channel, last_written, write_failed, app_pc,
                           last_request>>
            /\ app' = [app EXCEPT !.elapsed = 0, !.frame = "near",
                                  !.frames = 1 - @]
       ELSE /\ IF UseAdaptive(rd)
               THEN IF ManagerAdjusts(AdaptiveTarget(rd.lux))
                    THEN FadeTo(AdaptiveTarget(rd.lux), ok)
                    ELSE /\ ok
                         /\ UNCHANGED <<channel, last_written, write_failed,
                                        app_pc, last_request>>
               ELSE FadeTo(display.max_brightness, ok)
            /\ app' = IF ok
                      THEN [screen_on |-> TRUE, reading |-> Some(rd),
                            elapsed |-> 0, frame |-> "near",
                            frames |-> 1 - app.frames]
                      ELSE [app EXCEPT !.elapsed = 0, !.frame = "near",
                                  !.frames = 1 - @]

\* a pass of run with a distance at or above the threshold: when the
\* screen is on and nobody was seen for more than 2 seconds, the display
\* is faded out
AppHumanFar(dt, ok) ==
    /\ impl = "app"
    /\ UNCHANGED <<notApp, display>>
    /\ app_pc = "run"
    /\ IF app.screen_on /\ AbsenceElapsed(ElapsedAfter(dt))
       THEN /\ FadeTo(0, ok)
            /\ app' = [app EXCEPT !.screen_on = IF ok THEN FALSE ELSE @,
                                  !.elapsed = ElapsedAfter(dt),
                                  !.frame = "far", !.frames = 1 - @]
       ELSE /\ ok
            /\ UNCHANGED <<channel, last_written, write_failed, app_pc,
                           last_request>>
            /\ app' = [app EXCEPT !.elapsed = ElapsedAfter(dt),
                                  !.frame = "far", !.frames = 1 - @]

\* a pass of run with a frame in which no zone has a distance above 0 and
\* below 8191: nothing is done but the sleep
AppNoValidDistance(dt) ==
    /\ impl = "app"
    /\ UNCHANGED <<notApp, display>>
    /\ app_pc = "run"
    /\ UNCHANGED <<channel, last_written, write_failed, app_pc,
                   last_request>>
    /\ app' = [app EXCEPT !.elapsed = ElapsedAfter(dt), !.frame = "empty",
                          !.frames = 1 - @]

\* a pass of run while the sensor has no frame ready
AppNoFrame(dt) ==
    /\ impl = "app"
    /\ UNCHANGED <<notApp, display>>
    /\ app_pc = "run"
    /\ UNCHANGED <<channel, last_written, write_failed, app_pc,
                   last_request>>
    /\ app' = [app EXCEPT !.elapsed = ElapsedAfter(dt)]

InitApp ==
    /\ impl = "app"
    /\ disp_config \in AppConfigs
    /\ app_pc = "init"
    /\ running = FALSE
    /\ channel \in InitialBrightness
    /\ last_written = None
    /\ write_failed = FALSE
    /\ fade_task = None
    /\ fades = [f \in FadeSlots |-> NoFade]
    /\ last_request = None
    /\ ModularIdle
    /\ AllInOneIdle
    /\ DetectorIdle
    /\ ExtIdle

NextApp ==
    \/ \E found \in BOOLEAN : AppConstruct(found)
    \/ \E rd \in LightReadings, ok \in BOOLEAN : AppHumanDetected(rd, ok)
    \/ \E dt \in PassSeconds, ok \in BOOLEAN : AppHumanFar(dt, ok)
    \/ \E dt \in PassSeconds : AppNoValidDistance(dt)
    \/ \E dt \in PassSeconds : AppNoFrame(dt)

SpecApp == InitApp /\ [][NextApp]_vars

\* C27: on every transition to screen-on in HomeDashboardApp.run a fade is
\* requested, and its target is the adaptive brightness of the light
\* reading when adaptive brightness is enabled and the reading is valid,
\* and the display's max_brightness otherwise: an invalid light reading
\* never prevents the wake fade.
C27_WakeFadeTarget ==
    [][(impl = "app" /\ ~app.screen_on /\ app'.screen_on)
         => /\ last_request' # last_request
            /\ last_request' =
                 Some(IF /\ disp_config.adaptive_brightness_enabled
                         /\ app'.reading[1].valid
                      THEN AdaptiveTarget(app'.reading[1].lux)
                      ELSE display.max_brightness)
            /\ channel' = ClampToDevice(last_request'[1])]_vars

\* the screen has been woken with an invalid light reading and is at the
\* display's max_brightness
C27_Witness ==
    /\ impl = "app"
    /\ app.screen_on
    /\ disp_config.adaptive_brightness_enabled
    /\ ~app.reading[1].valid
    /\ channel = display.max_brightness
    /\ last_request = Some(display.max_brightness)

\* C29: a brightness write that fails during a fade requested by
\* HomeDashboardApp.run is recoverable: the program keeps running its
\* polling loop.
C29_WriteFailureRecoverable ==
    (impl = "app" /\ write_failed) => app_pc = "run"

\* C30: in the all-in-one program, once a _fade_display task has started,
\* no fade task created before it is still ramping: the earlier task has
\* ended or has been cancelled, and its ramp has stopped writing.
C30_EarlierFadeCancelled ==
    impl = "allinone"
        => \A f, g \in FadeIds :
               (f < g /\ fades[g].status \notin {"unborn", "created"})
                   => fades[f].status # "ramp"

\* C31: in the all-in-one program, while human_present is true, an
\* iteration of _light_sensor_loop whose lux reading maps to an adaptive
\* brightness different from the current target brightness creates a fade
\* task to the new target.
C31_LightChangeStartsFade ==
    [][(/\ impl = "allinone"
        /\ system.human_present
        /\ current_lux' # current_lux
        /\ CalculateAdaptiveBrightness(current_lux', display.max_brightness)
             # system.current_target_brightness)
          => \E f \in FadeIds :
                 /\ fades[f].status = "unborn"
                 /\ fades'[f].status = "created"
                 /\ fades'[f].target =
                      CalculateAdaptiveBrightness(current_lux',
                                                  display.max_brightness)]_vars

(***************************************************************************)
(* Part 8: the ProximityDetector of the all-in-one program                 *)
(* (src/proximity_display_control.py).  analyze_distances is called once   *)
(* per frame by _sensor_loop; what it returns is kept in `verdicts`.       *)
(***************************************************************************)
\* the constructor replaces a parameter of 0 by the configured value, so
\* every parameter is positive
AnalyzerConfigs ==
    [threshold_mm : {DefaultThresholdMm},
     detection_zones : {DefaultDetectionZones},
     consecutive_required : 1..MaxConsecutiveRequired,
     no_presence_required : 1..MaxNoPresenceRequired]

\* what analyze_distances returns once the counters have been updated to
\* cd consecutive detections and npc consecutive non-detections
AnalyzeResult(presence_detected, cd, npc) ==
    IF presence_detected /\ cd >= det_config.consecutive_required THEN TRUE
    ELSE IF ~presence_detected /\ npc >= det_config.no_presence_required
         THEN FALSE
    ELSE cd >= det_config.consecutive_required

\* analyze_distances(distances) for a frame with zones_detected distances
\* between 0 and threshold_mm
AnalyzeDistances(zones_detected) ==
    /\ impl = "analyzer"
    /\ UNCHANGED <<dispVars, extVars, pending, det_config, human_present,
                   last_valid_distance, detection_start_time, now, reading,
                   was_present>>
    /\ LET presence_detected == zones_detected >= det_config.detection_zones
           cd == IF presence_detected THEN consecutive_detections + 1 ELSE 0
           npc == IF presence_detected THEN 0
                  ELSE consecutive_non_detections + 1
       IN  /\ cd <= MaxCount
           /\ npc <= MaxCount
           /\ consecutive_detections' = cd
           /\ consecutive_non_detections' = npc
           /\ verdicts' = Remember(AnalyzeResult(presence_detected, cd, npc))

InitAnalyzer ==
    /\ det_config \in AnalyzerConfigs
    /\ human_present = FALSE
    /\ consecutive_detections = 0
    /\ consecutive_non_detections = 0
    /\ last_valid_distance = None
    /\ detection_start_time = None
    /\ now = 0
    /\ reading = None
    /\ was_present = FALSE
    /\ verdicts = << >>
    /\ pending = << >>
    /\ impl = "analyzer"
    /\ DisplayIdle
    /\ ExtIdle

NextAnalyzer == \E zones_detected \in ZoneCounts : AnalyzeDistances(zones_detected)

SpecAnalyzer == InitAnalyzer /\ [][NextAnalyzer]_vars

\* C32: analyze_distances returns what it returned for the previous frame
\* whenever neither consecutive_required consecutive detecting frames nor
\* no_presence_required consecutive non-detecting frames have been reached;
\* so after True it returns True until no_presence_required consecutive
\* non-detecting frames have occurred.
C32_AnalyzeKeepsPreviousState ==
    [][(/\ impl = "analyzer"
        /\ verdicts # << >>
        /\ consecutive_detections' < det_config.consecutive_required
        /\ consecutive_non_detections' < det_config.no_presence_required)
          => LastVerdict' = LastVerdict]_vars

\* C33: the proximity worker of the modular orchestrator awaits each wake
\* or sleep call to its end: while it is inside the call (waiting for the
\* lock, for a cancelled fade or for its own fade) it takes no reading, and
\* when it returns to its loop no fade is running any more.
C33_WorkerAwaitsFade ==
    /\ []((impl = "modular" /\ InCall("proximity"))
            => ~ENABLED (\E hp \in BOOLEAN : PollProximity(hp)))
    /\ [][(impl = "modular" /\ InCall("proximity")
           /\ wpc'["proximity"] = "poll")
            => /\ \A f \in FadeIds : fades'[f].status \notin
                                       {"created", "writing", "sleeping"}
               /\ ~state'.is_fading]_vars

\* the proximity worker waits for the lock while the fade of the light
\* worker is being written
C33_Witness ==
    /\ impl = "modular"
    /\ wpc["proximity"] = "lock_wait"
    /\ wpc["light"] = "await_fade"
    /\ \E f \in FadeIds : fades[f].status = "writing"

(***************************************************************************)
(* The modular program with the scheduling of the event loop: a worker     *)
(* whose awaited fade task has ended is resumed, and _shutdown goes on     *)
(* once asyncio.gather has seen every worker end.                          *)
(***************************************************************************)
SpecModularLive ==
    /\ InitModular
    /\ [][NextModular]_vars
    /\ WF_vars(\E w \in Workers : FadeAwaited(w))
    /\ WF_vars(Cleanup)

\* C34: after a shutdown request in the modular program every worker task
\* eventually ends and _shutdown completes, also when the request arrives
\* while a fade is in progress or a fade request waits for the lock.
C34_ShutdownCompletes ==
    (impl = "modular" /\ app_pc = "shutdown")
        ~> (app_pc = "stopped" /\ \A w \in Workers : wpc[w] = "done")

\* shutdown has been requested while one worker was awaiting its fade and
\* the other was waiting for the lock
C34_Witness ==
    /\ impl = "modular"
    /\ app_pc = "shutdown"
    /\ \E w \in Workers : wpc[w] = "await_fade"
    /\ \E w \in Workers : wpc[w] = "done" /\ wreq[w] = NoCall
    /\ \E f \in FadeIds : fades[f].status = "cancelled"

(***************************************************************************)
(* Part 9: one fade on its own.  A fade task of the modular program        *)
(* (_fade_worker) or of the all-in-one program (fade_to) has just been     *)
(* created; it runs to its end, nothing cancels it and every write         *)
(* succeeds.  The actions are those of Parts 2 and 3; the fade has more    *)
(* steps than the fades of the whole programs.                             *)
(***************************************************************************)
MaxRampSteps == 5

RampConfigs ==
    [min_brightness : {DefaultMinBrightness, 60},
     max_brightness : {DefaultMaxBrightness},
     light_threshold_low : {DefaultLightThresholdLow},
     light_threshold_high : {DefaultLightThresholdHigh},
     adaptive_brightness_enabled : {TRUE},
     fade_steps : 1..MaxRampSteps,
     fade_easing : Easings]

\* tracked brightness at the start of a fade, and fade targets: off, the
\* adaptive targets 54 and 110 of a display configured with
\* min_brightness 60, that minimum, and full brightness
RampLevels == {0, 54, 60, 110, 255}

\* the targets the modular program fades to: min_brightness (sleep),
\* max_brightness (wake), or an adaptive target, which is never below the
\* floor of the interpolation
ModularTargets ==
    {t \in RampLevels : \/ t = disp_config.min_brightness
                        \/ t = disp_config.max_brightness
                        \/ t >= AdaptiveFloor}

\* the modular program inside a display call, after _start_fade has
\* created the fade task; the tracked brightness it starts from is a value
\* read from the file at start-up or the target of an earlier fade
InitRampModular ==
    /\ impl = "modular"
    /\ disp_config \in RampConfigs
    /\ app_pc = "run"
    /\ running = TRUE
    /\ \E start \in RampLevels, target \in ModularTargets :
          /\ state = [current_brightness |-> start,
                      target_brightness |-> target,
                      is_fading |-> TRUE, is_awake |-> TRUE]
          /\ channel = ClampToConfig(start)
          /\ fades = [f \in FadeSlots |->
                        IF f = 1
                        THEN [NoFade EXCEPT !.status = "created",
                                            !.target = target,
                                            !.steps = disp_config.fade_steps]
                        ELSE NoFade]
          /\ wreq = [w \in Workers |->
                       IF w = "light"
                       THEN [NoCall EXCEPT !.op = "adaptive",
                                           !.target = target]
                       ELSE NoCall]
          /\ last_request = Some(target)
    /\ last_written = None
    /\ write_failed = FALSE
    /\ fade_task = Some(1)
    /\ lock_owner = Some("light")
    /\ lock_waiters = << >>
    /\ wpc = [w \in Workers |-> IF w = "light" THEN "await_fade" ELSE "poll"]
    /\ previous_human_present = TRUE
    /\ AllInOneIdle
    /\ DetectorIdle
    /\ ExtIdle

\* the all-in-one program inside _fade_display, at the first step of
\* fade_to
InitRampAllInOne ==
    /\ impl = "allinone"
    /\ disp_config \in RampConfigs
    /\ app_pc = "run"
    /\ running = TRUE
    /\ \E start \in RampLevels, target \in RampLevels :
          /\ start # target
          /\ channel = start
          /\ display = [current_brightness |-> start,
                        max_brightness |-> DefaultMaxBrightness]
          /\ system = [human_present |-> TRUE,
                       current_target_brightness |-> target,
                       fading |-> TRUE]
          /\ fades = [f \in FadeSlots |->
                        IF f = 1
                        THEN [NoFade EXCEPT
                                !.status = "ramp",
                                !.target = target,
                                !.start = start,
                                !.value = start,
                                !.steps = EffectiveSteps(
                                              FadeInDurationMs,
                                              disp_config.fade_steps)]
                        ELSE NoFade]
          /\ last_request = Some(target)
    /\ last_written = None
    /\ write_failed = FALSE
    /\ fade_task = None
    /\ current_lux = 0
    /\ ModularIdle
    /\ DetectorIdle
    /\ ExtIdle

InitRamp == InitRampModular \/ InitRampAllInOne

NextRamp ==
    \/ FadeWorkerStart(1)
    \/ WriteReturns(1, TRUE)
    \/ SleepReturns(1)
    \/ RampStep(1, TRUE)

SpecRamp == InitRamp /\ [][NextRamp]_vars

Between(v, a, b) == IF a <= b THEN a <= v /\ v <= b ELSE b <= v /\ v <= a

\* from prev to new is no step away from target, seen from start
Toward(prev, new, start, target) ==
    IF target >= start THEN new >= prev ELSE new <= prev

\* the range set_brightness / _write_brightness of the running program
\* clamps to
ClampWritten(b) ==
    IF impl = "modular" THEN ClampToConfig(b) ELSE ClampToDisplay(b)

\* a step of the fade after which the fade has written something
RampWrote ==
    /\ fades[1].status \in {"writing", "ramp"}
    /\ fades' # fades
    /\ last_written' # None

C36_DwellGuardNeverSkipped ==
    /\ [](human_present => detection_start_time # None)
    /\ [][(human_present /\ ~human_present' /\ ~IsInvalid(reading'))
            => /\ detection_start_time # None
               /\ now' - detection_start_time[1] >= MinDetectionDuration]_vars

\* enough consecutive non-detections have been counted, and presence is
\* held by the dwell guard alone
C36_Witness ==
    /\ impl = "detector"
    /\ det_config.consecutive_required >= 1
    /\ human_present
    /\ ~IsInvalid(reading)
    /\ consecutive_non_detections >= det_config.no_presence_required
    /\ detection_start_time # None
    /\ now - detection_start_time[1] < MinDetectionDuration

\* the distance and zone checks of _is_detection_criteria_met and the zone
\* rule of _validate_movement, for a valid reading rd
MeetsDistanceAndZoneChecks(rd) ==
    /\ rd[1].distance_mm <= det_config.threshold_mm
    /\ rd[1].zones_in_range >= det_config.detection_zones
    /\ rd[1].zones_in_range >= Max(1, det_config.detection_zones - 1)

\* C37: the previous distance is updated on every valid reading, also one
\* rejected by the movement check; so a valid reading that follows a valid
\* reading (rejected or not), lies within 300 mm of it and meets the
\* distance and zone checks counts as a detection.
C37_JumpRejectsOnlyItself ==
    /\ []((impl = "detector" /\ ~IsInvalid(reading))
            => last_valid_distance = Some(reading[1].distance_mm))
    /\ [][(/\ impl = "detector"
           /\ ~IsInvalid(reading)
           /\ ~IsInvalid(reading')
           /\ Abs(reading'[1].distance_mm - reading[1].distance_mm)
                <= MaxRealisticChange
           /\ MeetsDistanceAndZoneChecks(reading'))
            => /\ verdicts'[Len(verdicts')]
               /\ consecutive_detections' = consecutive_detections + 1]_vars

\* a reading that meets the distance and zone checks has just been rejected
\* for its jump alone, and it is now the previous distance
C37_Witness ==
    /\ impl = "detector"
    /\ det_config.detection_zones = DefaultDetectionZones
    /\ ~IsInvalid(reading)
    /\ MeetsDistanceAndZoneChecks(reading)
    /\ Len(verdicts) >= 2
    /\ ~verdicts[Len(verdicts)]
    /\ consecutive_detections = 0
    /\ last_valid_distance = Some(reading[1].distance_mm)

\* C38: in HomeDashboardApp.run a fade-out to 0 is issued only when the
\* screen is on and more than 2.0 s have passed since the most recent
\* processed frame whose nearest valid distance was below threshold_mm
\* (every such frame restarts the time that is measured).
C38_FadeOutOnlyAfterAbsence ==
    [][(impl = "app" /\ last_request' = Some(0) /\ last_request # Some(0))
         => /\ app.screen_on
            /\ app'.frame = "far"
            /\ app'.elapsed > AbsenceLimit]_vars

\* the screen was on and has been faded out to 0
C38_Witness ==
    /\ impl = "app"
    /\ app.reading # None
    /\ ~app.screen_on
    /\ app.frame = "far"
    /\ app.elapsed > AbsenceLimit
    /\ last_request = Some(0)
    /\ channel = 0

\* HomeDashboardApp.run with a sensor that keeps reporting frames in which
\* nobody is near, a second or more apart
SpecAppLive ==
    /\ InitApp
    /\ [][NextApp]_vars
    /\ WF_vars(\/ \E ok \in BOOLEAN : AppHumanFar(1, ok)
               \/ AppNoValidDistance(1))

\* C39: if from some point on the program keeps running and no processed
\* frame contains a valid distance below threshold_mm, a screen that is on
\* is eventually faded out to 0 and stays off.
C39_ScreenEventuallyFadedOut ==
    <>[](impl = "app" /\ app_pc = "run" /\ app.frame # "near")
        => <>[](~app.screen_on)

(***************************************************************************)
(* DisplayManager.fade_to, write by write (src/sensors/display_manager.py). *)
(* The call is made once, for a brightness file, a device maximum and a    *)
(* target drawn from what the program can hand to it.  fades[1] is the     *)
(* frame of the call: `start` is current, `value` the loop variable b,     *)
(* `step` the number of writes made.                                       *)
(***************************************************************************)
FADE_STEP == 5

\* what fade_to never touches
notFadeTo == <<detVars, extVars, impl, disp_config, running, fade_task, state,
               lock_owner, lock_waiters, wpc, wreq, previous_human_present,
               display, system, current_lux>>

\* max_brightness as read from the backlight device
DeviceMaxima == {100, DefaultMaxBrightness}
\* contents of the brightness file before the call
FileLevels == {0, 3, 50, 100, 255}
\* the targets the callers pass: 0, the device maximum, an adaptive target
FadeToTargets ==
    {0, display.max_brightness}
        \cup {AdaptiveTarget(lux) : lux \in ManagerLuxLevels}

\* DisplayManager.get_brightness: the file, or max_brightness when reading
\* it raises
GetBrightness(readable) ==
    IF readable THEN channel ELSE display.max_brightness

\* step = FADE_STEP if target > current else -FADE_STEP
StepOf(current, target) == IF target > current THEN FADE_STEP ELSE -FADE_STEP

\* whether b is in range(current, target, step)
InFadeRange(b, current, target) ==
    IF StepOf(current, target) > 0 THEN b < target ELSE b > target

\* mutant: the loop variable advances by two steps
NextInFadeRangeDouble(b, current, target) == b + 2 * StepOf(current, target)

\* the element of range(current, target, step) that follows b
NextInFadeRange(b, current, target) == b + StepOf(current, target)

\* fade_to(target) is entered: current = self.get_brightness()
FadeToEnter(target, readable) ==
    /\ impl = "manager"
    /\ UNCHANGED notFadeTo
    /\ app_pc = "run"
    /\ fades[1].status = "unborn"
    /\ fades' = [fades EXCEPT ![1] =
                   [NoFade EXCEPT !.status = "writing",
                                  !.target = target,
                                  !.start = GetBrightness(readable),
                                  !.value = GetBrightness(readable)]]
    /\ last_request' = Some(target)
    /\ UNCHANGED <<channel, last_written, write_failed, app_pc>>

\* set_brightness(value) inside fade_to: the clamped value reaches the
\* file, or PermissionError leaves fade_to and the program
FadeToWrite(value, ok) ==
    /\ channel' = IF ok THEN ClampToDevice(value) ELSE channel
    /\ last_written' = IF ok THEN Some(ClampToDevice(value)) ELSE last_written
    /\ write_failed' = (write_failed \/ ~ok)
    /\ app_pc' = IF ok THEN app_pc ELSE "stopped"

\* one pass of the for loop: set_brightness(b), sleep
FadeToLoop(ok) ==
    /\ impl = "manager"
    /\ UNCHANGED <<notFadeTo, last_request>>
    /\ fades[1].status = "writing"
    /\ InFadeRange(fades[1].value, fades[1].start, fades[1].target)
    /\ FadeToWrite(fades[1].value, ok)
    /\ fades' = [fades EXCEPT
                   ![1].status = IF ok THEN "writing" ELSE "failed",
                   ![1].step = IF ok THEN @ + 1 ELSE @,
                   ![1].value = IF ok
                                THEN NextInFadeRange(@, fades[1].start,
                                                 fades[1].target)
                                ELSE @]

\* the range is exhausted: set_brightness(target), return
FadeToFinal(ok) ==
    /\ impl = "manager"
    /\ UNCHANGED <<notFadeTo, last_request>>
    /\ fades[1].status = "writing"
    /\ ~InFadeRange(fades[1].value, fades[1].start, fades[1].target)
    /\ FadeToWrite(fades[1].target, ok)
    /\ fades' = [fades EXCEPT
                   ![1].status = IF ok THEN "done" ELSE "failed",
                   ![1].step = IF ok THEN @ + 1 ELSE @]

InitFadeTo ==
    /\ impl = "manager"
    /\ disp_config \in AppConfigs
    /\ app_pc = "run"
    /\ running = FALSE
    /\ \E m \in DeviceMaxima :
          /\ display = [current_brightness |-> 0, max_brightness |-> m]
          /\ channel \in {l \in FileLevels : l <= m}
    /\ last_written = None
    /\ write_failed = FALSE
    /\ fade_task = None
    /\ fades = [f \in FadeSlots |-> NoFade]
    /\ last_request = None
    /\ system = [human_present |-> FALSE, current_target_brightness |-> 0,
                 fading |-> FALSE]
    /\ current_lux = 0
    /\ ModularIdle
    /\ DetectorIdle
    /\ ExtIdle

NextFadeTo ==
    \/ \E target \in FadeToTargets, readable \in BOOLEAN :
           FadeToEnter(target, readable)
    \/ \E ok \in BOOLEAN : FadeToLoop(ok)
    \/ \E ok \in BOOLEAN : FadeToFinal(ok)

\* the call is made and the interpreter keeps executing it
SpecFadeTo == InitFadeTo /\ [][NextFadeTo]_vars /\ WF_vars(NextFadeTo)

\* a write of fade_to has succeeded in this step
FadeToWrote ==
    /\ impl = "manager"
    /\ fades[1].status = "writing"
    /\ fades'[1].step = fades[1].step + 1

=============================================================================
